---- MODULE Spec2Model ----
(***************************************************************************)
(* Saving and restoring precompiled modules (src/dump.c).                  *)
(*                                                                         *)
(* The module models                                                       *)
(*   - the load pipeline of _jl_restore_incremental: header and manifest  *)
(*     verification, the GC / finalizer / world-counter bracket, the      *)
(*     decode of the payload and the fix-up passes that follow it;        *)
(*   - edge verification and back-edge insertion (jl_verify_edges,        *)
(*     jl_insert_backedges, validate_new_code_instances);                 *)
(*   - the value codec's backref numbering (jl_serialize_generic and      *)
(*     jl_deserialize_value) and the save entry point jl_save_incremental.*)
(***************************************************************************)
EXTENDS Integers, Sequences, FiniteSets, TLC

(***************************************************************************)
(* Bounds of the model.                                                    *)
(***************************************************************************)
\* deserialized method instances of one cache file
NumMI == 2
\* longest code-instance chain of a deserialized method instance
MaxChain == 2
\* most objects a payload decodes besides its lists
MaxObjs == 3
\* the build id of the last module of the worklists of the scenarios, as its
\* high and its low 32 bits
WorklistBuildHi == 3
WorklistBuildLo == 7
\* entries of ext_targets
NumTargets == 2
\* methods of the running session that a callee signature can match
NumMethods == 2
\* the world counter before a load starts is 1..MaxWorld0
MaxWorld0 == 2

(***************************************************************************)
(* Program constants.                                                      *)
(***************************************************************************)
\* ~(size_t)0, the "valid forever" world; the largest integer TLC holds
\* stands for the largest size_t
WorldInf == 2147483647
\* JI_FORMAT_VERSION
JI_FORMAT_VERSION == 11

NULL == "NULL"
\* the null code-instance pointer (code instances are pairs)
NoCI == <<>>
\* a pointer to an array: the null pointer, or the array it points to
NullPtr == <<>>
Ptr(a) == <<a>>
\* jl_false, the answer of jl_matching_methods when matching fails: a value
\* that is no list of methods (methods are numbered from 1)
JlFalse == <<0>>

MethodInsts == 1 .. NumMI
Targets == 1 .. NumTargets
Methods == 1 .. NumMethods

\* the pre-existing ("live") specialization that jl_specializations_get_or_insert
\* finds for the deserialized method instance m, when the session has one
LiveOf(m) == 0 - m
\* code instances: <<m, k>> is the k-th entry of the chain decoded for m,
\* <<LiveOf(m), 1>> the code instance the session already holds for LiveOf(m)
ChainIds(m, n) == {<<m, k>> : k \in 1 .. n}

Range(s) == {s[i] : i \in 1 .. Len(s)}
IsInjective(s) == \A i, j \in 1 .. Len(s) : s[i] = s[j] => i = j
\* all sequences over S of length at most n
RECURSIVE SeqsUpTo(_, _)
SeqsUpTo(S, n) ==
    IF n = 0 THEN {<<>>}
    ELSE LET shorter == SeqsUpTo(S, n - 1)
         IN  shorter \cup {Append(s, x) : s \in {t \in shorter : Len(t) = n - 1}, x \in S}
\* duplicate-free sequences (the shape of a jl_matching_methods result)
DistinctSeqs(S, n) == {s \in SeqsUpTo(S, n) : IsInjective(s)}

VARIABLES
    \* ---- the inputs of a load
    f,                      \* the cache file: header, manifest and payload
    rt,                     \* what the running session answers (matching, dispatch, live specializations)
    \* ---- runtime state
    jl_world_counter,
    gc_enabled,             \* the state jl_gc_enable toggles and returns
    finalizers_inhibited,   \* ptls->finalizers_inhibited, moved by jl_gc_enable_finalizers
    serializer_worklist,
    \* ---- _jl_restore_incremental
    pc,                     \* position in _jl_restore_incremental
    en,                     \* its local `en`
    ret,                    \* its return value: NULL while running, "error" or "restored"
    tables,                 \* the per-load tables that currently exist
    new_code_instance_validate,
    flagref_list,
    ci,                     \* code instances: [min_world, max_world, next, def]
    mi,                     \* method instances: [cache, backedges]
    uniquing,               \* uniquing_table restricted to method instances
    uniquing_table,         \* uniquing_table: the entries of the objects flagref_list refers to
    slots,                  \* the locations flagref_list records, and what each holds
    methods,                \* decoded methods: [primary_world, deleted_world]
    mi_valid,               \* valids of jl_insert_method_instances
    specializations,        \* method instances inserted into their method's specialization cache
    mt_defs,                \* extext methods inserted into the method tables
    valids,                 \* valids of jl_verify_edges
    callee_backedges,       \* back-edge list of each method-instance callee of ext_targets
    mt_backedges,           \* (signature, caller) pairs added to method tables
    appended_roots,         \* live method -> the (key, roots) jl_append_method_roots was given
    type_cache,             \* the types in the type cache of the session
    type_tags,              \* object -> the type tag jl_recache_types has put in its header
    ji,                     \* the bytes of a cache file, its writer and its reader
    wire,                   \* one back reference: what is written and what is read back
    reinit_done,            \* reinit entries replayed by jl_finalize_deserializer
    \* ---- history
    passes,                 \* the passes that have completed, in order
    entry,                  \* the runtime state when the operation was entered
    queued_method_roots,    \* external method -> the new roots decoded for it
    calls,                  \* the saves and loads entered so far
    \* ---- jl_save_incremental and the stream it writes
    save_in,                \* its inputs: the values it serializes, and what ser_tag holds
    save_pc,                \* position in jl_save_incremental
    save_en,                \* its local `en`
    jl_precompile_toplevel_module,
    backref_table,          \* object -> (position << 1)
    backref_table_numel,
    stream,                 \* s->s: what the serializer has written
    saved,                  \* history: backref_table and its count when the serializer finished
    edges_map,              \* caller -> callees
    external_mis,           \* the queued external method instances
    reinit_list,            \* (position, how) of the objects to reinitialize on load
    edges_out,              \* edges, ext_targets and the count queue_external_mis returned
    \* ---- the decoder reading the stream back
    backref_list,
    load_status             \* how decoding the stream ended

loadvars == <<ji, wire, type_cache, type_tags, appended_roots, f, rt, jl_world_counter, gc_enabled, finalizers_inhibited, serializer_worklist,
              pc, en, ret, tables, new_code_instance_validate, flagref_list, ci, mi,
              uniquing, uniquing_table, slots, methods, mi_valid, specializations, mt_defs, valids, callee_backedges,
              mt_backedges, reinit_done, passes, entry, queued_method_roots, calls>>

\* the variables of a save other than backref_list
streamvars == <<save_in, save_pc, save_en, jl_precompile_toplevel_module, backref_table,
                backref_table_numel, stream, saved, load_status, edges_map, external_mis,
                reinit_list, edges_out>>

savevars == <<streamvars, backref_list>>

vars == <<loadvars, savevars>>

(***************************************************************************)
(* The file header.                                                        *)
(***************************************************************************)
\* JI_MAGIC, "\373jli\r\n\032\n"
JI_MAGIC == <<251, 106, 108, 105, 13, 10, 26, 10>>
\* BOM, 0xFEFF
BOM == 65279
\* sizeof(void*) of the build
PtrSize == 8
\* JL_BUILD_UNAME, JL_BUILD_ARCH, JULIA_VERSION_STRING, jl_git_branch(), jl_git_commit():
\* the build's strings, shortened
BuildStrings == <<  <<76>>, <<120>>, <<49, 56>>, <<109>>, <<99>>  >>

\* write_uint16: two bytes, low byte first
Uint16Bytes(n) == <<n % 256, n \div 256>>
\* a C string as write_header emits it: the characters and the closing NUL
CStr(str) == str \o <<0>>

\* the header a build with these values writes
HeaderOf(version, bom, ptrsize, strs) ==
    JI_MAGIC \o Uint16Bytes(version) \o Uint16Bytes(bom) \o <<ptrsize>>
      \o CStr(strs[1]) \o CStr(strs[2]) \o CStr(strs[3]) \o CStr(strs[4]) \o CStr(strs[5])

write_header == HeaderOf(JI_FORMAT_VERSION, BOM, PtrSize, BuildStrings)

\* read_uint8 at offset p; a read past the end of the stream yields no valid byte
ReadByte(s, p) == IF p <= Len(s) THEN s[p] ELSE 0 - 1
read_uint16(s, p) == ReadByte(s, p) + 256 * ReadByte(s, p + 1)
readstr_verify(s, p, str) == \A i \in 1 .. Len(str) : ReadByte(s, p + i - 1) = str[i]
\* a variant that does not read the closing NUL
ReadCStrOpen(s, p, str) == readstr_verify(s, p, str)
\* readstr_verify(s, str) && !read_uint8(s)
ReadCStr(s, p, str) == readstr_verify(s, p, str) /\ ReadByte(s, p + Len(str)) = 0

\* offset of the k-th build string in a header that verified up to it
StrOffset(k) ==
    LET RECURSIVE Off(_)
        Off(j) == IF j = 1 THEN Len(JI_MAGIC) + 6 ELSE Off(j - 1) + Len(BuildStrings[j - 1]) + 1
    IN  Off(k)

jl_read_verify_header(s) ==
    /\ readstr_verify(s, 1, JI_MAGIC)
    /\ read_uint16(s, Len(JI_MAGIC) + 1) = JI_FORMAT_VERSION
    /\ read_uint16(s, Len(JI_MAGIC) + 3) = BOM
    /\ ReadByte(s, Len(JI_MAGIC) + 5) = PtrSize
    /\ \A k \in 1 .. Len(BuildStrings) : ReadCStr(s, StrOffset(k), BuildStrings[k])

(***************************************************************************)
(* The module manifest.                                                    *)
(***************************************************************************)
\* a variant that compares only the high word of the UUID
RECURSIVE ModListFromHi(_, _, _)
ModListFromHi(list, mod_list, i) ==
    LET atEnd == i > Len(list)
        l == Len(mod_list)
    IN  IF atEnd /\ i = l + 1 THEN NULL
        ELSE IF atEnd \/ i = l + 1 THEN "Wrong number of entries in module list."
        ELSE IF \/ ~mod_list[i].is_module
                \/ mod_list[i].uuid.hi # list[i].uuid.hi
                \/ mod_list[i].name # list[i].name
                \/ mod_list[i].build_id # list[i].build_id
             THEN "Invalid input in module list"
        ELSE ModListFromHi(list, mod_list, i + 1)

\* read_verify_mod_list: NULL on success, else the error it returns
RECURSIVE ModListFrom(_, _, _)
ModListFrom(list, mod_list, i) ==
    LET atEnd == i > Len(list)          \* len == 0: the terminating length word
        l == Len(mod_list)
    IN  IF atEnd /\ i = l + 1 THEN NULL
        ELSE IF atEnd \/ i = l + 1 THEN "Wrong number of entries in module list."
        ELSE IF \/ ~mod_list[i].is_module       \* !m || !jl_is_module(m)
                \/ mod_list[i].uuid.hi # list[i].uuid.hi
                \/ mod_list[i].uuid.lo # list[i].uuid.lo
                \/ mod_list[i].name # list[i].name
                \/ mod_list[i].build_id # list[i].build_id
             THEN "Invalid input in module list"
        ELSE ModListFrom(list, mod_list, i + 1)

read_verify_mod_list(list, mod_list, main_build_id) ==
    IF main_build_id = 0 THEN "Main module uuid state is invalid for module deserialization."
    ELSE ModListFrom(list, mod_list, 1)

(***************************************************************************)
(* Code instances and method instances.                                    *)
(***************************************************************************)
\* the cache chain that starts at code instance c (following next)
RECURSIVE ChainFrom(_, _)
ChainFrom(cis, c) == IF c = NoCI THEN <<>> ELSE <<c>> \o ChainFrom(cis, cis[c].next)

\* the code instances on the chain of method instance m
ChainOf(cis, mis, m) == Range(ChainFrom(cis, mis[m].cache))

\* a variant that stamps min_world on every decoded instance, whatever its flag
DeserializeStampAll(m, k, n, validate, world) ==
    [min_world |-> world,
     max_world |-> 0,
     next      |-> IF k < n THEN <<m, k + 1>> ELSE NoCI,
     def       |-> m]

\* a variant that stamps the instances whose validate flag is clear
DeserializeStampCleared(m, k, n, validate, world) ==
    [min_world |-> IF validate THEN 0 ELSE world,
     max_world |-> 0,
     next      |-> IF k < n THEN <<m, k + 1>> ELSE NoCI,
     def       |-> m]

\* a variant that stamps the world age after the reserved one
DeserializeCodeInstanceNextWorld(m, k, n, validate, world) ==
    [min_world |-> IF validate THEN world + 1 ELSE 0,
     max_world |-> 0,
     next      |-> IF k < n THEN <<m, k + 1>> ELSE NoCI,
     def       |-> m]

\* jl_deserialize_value_code_instance for the k-th of n entries of m's chain:
\* the object is zeroed, max_world is never read back, and min_world is set
\* only for an instance whose validate flag is set
jl_deserialize_value_code_instance(m, k, n, validate, world) ==
    [min_world |-> IF validate THEN world ELSE 0,
     max_world |-> 0,
     next      |-> IF k < n THEN <<m, k + 1>> ELSE NoCI,
     def       |-> m]

\* a variant that stamps a method with the world age before the reserved one
DeserializeMethodOldWorld(internal, world) ==
    [primary_world |-> IF internal THEN world - 1 ELSE 0,
     deleted_world |-> IF internal THEN WorldInf ELSE 0]

\* jl_deserialize_value_method: the object is zeroed; a method that is not
\* METHOD_INTERNAL returns before its worlds are set, an internal method gets
\* primary_world = jl_world_counter and deleted_world = ~(size_t)0
jl_deserialize_value_method(internal, world) ==
    [primary_world |-> IF internal THEN world ELSE 0,
     deleted_world |-> IF internal THEN WorldInf ELSE 0]

\* the code instances a payload decodes, and those among them that are
\* entered in new_code_instance_validate
DecodedCIs(p) == UNION {ChainIds(m, Len(p.chain[m])) : m \in MethodInsts}
DecodedValidate(p) == {c \in DecodedCIs(p) : p.chain[c[1]][c[2]]}

(***************************************************************************)
(* jl_recache_types / jl_recache_other on flagref_list.                    *)
(* An object is <<kind, id>>: the object decoded at backref position p has *)
(* id p, and the object the session holds in its place has id -p.  An      *)
(* entry of flagref_list is [loc, offs]: loc is the location that holds    *)
(* the reference (0 for NULL) and offs the backref position (-1 for none). *)
(***************************************************************************)
\* jl_main_module, the first entry of backref_table and of backref_list
MainModule == <<"Module", 0>>

\* the object the session already holds for placeholder o
LiveObj(o) == <<o[1], 0 - o[2]>>

jl_is_method(o) == o[1] = "method"
jl_is_method_instance(o) == o[1] = "mi"
jl_is_datatype(o) == o[1] = "datatype"

\* jl_typeof(o) of a singleton: jl_deserialize_value_singleton decodes the
\* type right after it has pushed the instance
TypeOf(o) == <<"datatype", o[2] + 1>>
\* t->instance of a singleton type
InstanceOf(t) == <<"singleton", IF t[2] > 0 THEN t[2] - 1 ELSE t[2] + 1>>
\* mi->def.method of an external method instance: decoded right after the
\* instance was pushed
DefOf(o) == <<"method", o[2] + 1>>

\* loc ? *loc : backref_list.items[offs]
FlagrefObj(e, sl, bl) == IF e.loc # 0 THEN sl[e.loc] ELSE bl[e.offs + 1]

\* if (loc) *loc = x;  if (offs > 0) backref_list.items[offs] = x;
StoreRecached(h, e, x) ==
    [h EXCEPT !.slots = IF e.loc # 0 THEN [@ EXCEPT ![e.loc] = x] ELSE @,
              !.backref_list = IF e.offs > 0 THEN [@ EXCEPT ![e.offs + 1] = x] ELSE @]

\* a type of the session that no payload decodes, such as Int64
SessionType == <<"datatype", 0 - (MaxObjs + 1)>>
\* dt->parameters: the parameters the payload gives the type, else one type
\* of the session
ParamsOf(h, dt) == IF dt[2] \in DOMAIN h.params THEN h.params[dt[2]] ELSE <<SessionType>>
\* jl_lookup_cache_type_(dt): the type of the cache with the name and the
\* parameters of dt, NULL if there is none
jl_lookup_cache_type_(cache, dt) == IF LiveObj(dt) \in cache THEN LiveObj(dt) ELSE NullPtr

RECURSIVE recache_datatype(_, _)
RECURSIVE RecacheParams(_, _, _)
\* recache_type(p) for a parameter p that is a datatype
recache_type(h, p) ==
    IF p \in DOMAIN h.uniquing_table THEN recache_datatype(h, p)
    ELSE LET h1 == RecacheParams(h, IF p = SessionType THEN <<>> ELSE ParamsOf(h, p), 1)
         IN  [t |-> p, h |-> [h1 EXCEPT !.uniquing_table = (p :> p) @@ @]]
\* jl_svecset(tt, i, recache_type(jl_svecref(tt, i))) from the i-th parameter
RecacheParams(h, tt, i) ==
    IF i > Len(tt) THEN h ELSE RecacheParams(recache_type(h, tt[i]).h, tt, i + 1)

\* recache_datatype: a type that is not in uniquing_table is returned as it
\* is, a type already uniqued gives its image, and otherwise the parameters
\* are recached and the type cache is asked: what it holds is the image, and
\* if it holds nothing the type is entered in it and is its own image
recache_datatype(h, dt) ==
    IF dt \notin DOMAIN h.uniquing_table THEN [t |-> dt, h |-> h]
    ELSE IF h.uniquing_table[dt] # NullPtr THEN [t |-> h.uniquing_table[dt], h |-> h]
    ELSE LET tt == ParamsOf(h, dt)
             h1 == RecacheParams(h, tt, 1)
             found == jl_lookup_cache_type_(h1.type_cache, dt)
             t  == IF Len(tt) = 0 THEN dt ELSE IF found # NullPtr THEN found ELSE dt
         IN  [t |-> t,
              h |-> [h1 EXCEPT !.uniquing_table = (dt :> t) @@ @,
                               !.type_cache = IF Len(tt) # 0 /\ found = NullPtr
                                              THEN @ \cup {dt} ELSE @]]

\* the first loop of jl_recache_types: "rewrite all the unique'd objects"
RECURSIVE RecacheTypesFrom(_, _, _)
RecacheTypesFrom(items, i, h) ==
    IF i > Len(items) THEN h
    ELSE LET e == items[i]
             o == FlagrefObj(e, h.slots, h.backref_list)
         IN  IF jl_is_method(o) \/ jl_is_method_instance(o)
             THEN RecacheTypesFrom(items, i + 1, h)
             ELSE LET dt == IF jl_is_datatype(o) THEN o ELSE TypeOf(o)
                      r  == recache_datatype(h, dt)
                      t  == r.t
                      h1 == r.h
                      h2 == IF dt = o /\ t # dt THEN StoreRecached(h1, e, t) ELSE h1
                      \* v == o holds exactly when o is not a datatype
                      h3 == IF ~jl_is_datatype(o) /\ InstanceOf(t) # o
                            THEN StoreRecached(h2, e, InstanceOf(t)) ELSE h2
                  IN  RecacheTypesFrom(items, i + 1, h3)

\* a variant of the clean-up loop that steps to the next entry after a deletion
RECURSIVE CleanupFlagrefsSkip(_, _, _, _)
CleanupFlagrefsSkip(items, i, sl, bl) ==
    IF i > Len(items) THEN items
    ELSE LET o == FlagrefObj(items[i], sl, bl)
         IN  IF jl_is_method(o) \/ jl_is_method_instance(o)
             THEN CleanupFlagrefsSkip(items, i + 1, sl, bl)
             ELSE LET len == Len(items) - 1
                  IN  IF i > len THEN SubSeq(items, 1, len)
                      ELSE CleanupFlagrefsSkip([SubSeq(items, 1, len) EXCEPT ![i] = items[len + 1]],
                                               i + 1, sl, bl)

\* the clean-up loop of jl_recache_types: methods and method instances stay,
\* every other entry is overwritten by the entry at the end of the list
RECURSIVE CleanupFlagrefs(_, _, _, _)
CleanupFlagrefs(items, i, sl, bl) ==
    IF i > Len(items) THEN items
    ELSE LET o == FlagrefObj(items[i], sl, bl)
         IN  IF jl_is_method(o) \/ jl_is_method_instance(o)
             THEN CleanupFlagrefs(items, i + 1, sl, bl)
             ELSE LET len == Len(items) - 1
                  IN  IF i > len THEN SubSeq(items, 1, len)
                      ELSE CleanupFlagrefs([SubSeq(items, 1, len) EXCEPT ![i] = items[len + 1]],
                                           i, sl, bl)

\* the type tags of the invalidated objects
PoisonType == 16
PoisonInstance == 32
\* o->instance is not NULL: the payload decodes the instance in front of o
HasInstance(objs, o) == o[2] > 1 /\ o[2] <= Len(objs) /\ objs[o[2] - 1] = "singleton"
\* a variant that leaves the old objects as they are
InvalidateNone(ut, objs, tags) == tags
\* "invalidate the old datatypes to help catch errors": each type that has
\* an image other than itself, and its instance if the image has another
InvalidateOld(ut, objs, tags) ==
    LET old == {o \in DOMAIN ut : ut[o] # o}
    IN  [o \in old |-> PoisonType]
          @@ [v \in {InstanceOf(o) : o \in {x \in old : HasInstance(objs, x)}} |->
                PoisonInstance]
          @@ tags

\* jl_recache_types on the heap h = [slots, backref_list, uniquing_table,
\* flagref_list, abort]
jl_recache_types(h) ==
    LET h1 == RecacheTypesFrom(h.flagref_list, 1, h)
    IN  [h1 EXCEPT !.flagref_list = CleanupFlagrefs(@, 1, h1.slots, h1.backref_list),
                   !.type_tags = InvalidateOld(h1.uniquing_table, h1.objs, @)]

\* jl_recache_other_: the image of a method or method instance; a method
\* instance first recaches the method it specializes
RECURSIVE jl_recache_other_(_, _)
jl_recache_other_(ut, o) ==
    IF o \in DOMAIN ut THEN [newo |-> ut[o], ut |-> ut, abort |-> FALSE]
    ELSE IF jl_is_method(o)
    THEN LET newo == LiveObj(o)
         IN  [newo |-> newo, ut |-> (o :> newo) @@ (newo :> newo) @@ ut, abort |-> FALSE]
    ELSE IF jl_is_method_instance(o)
    THEN LET m == jl_recache_other_(ut, DefOf(o))
             newo == LiveObj(o)
         IN  [newo |-> newo, ut |-> (o :> newo) @@ m.ut, abort |-> m.abort]
    ELSE [newo |-> o, ut |-> ut, abort |-> TRUE]

\* the loop of jl_recache_other
RECURSIVE RecacheOtherFrom(_, _, _)
RecacheOtherFrom(items, i, h) ==
    IF i > Len(items) \/ h.abort THEN h
    ELSE LET e == items[i]
             r == jl_recache_other_(h.uniquing_table, FlagrefObj(e, h.slots, h.backref_list))
             h1 == [h EXCEPT !.uniquing_table = r.ut, !.abort = r.abort]
         IN  RecacheOtherFrom(items, i + 1, IF r.abort THEN h1 ELSE StoreRecached(h1, e, r.newo))

jl_recache_other(h) ==
    [RecacheOtherFrom(h.flagref_list, 1, h) EXCEPT !.flagref_list = <<>>]

(***************************************************************************)
(* The new roots of external methods.                                      *)
(***************************************************************************)
\* qmrval: the low and the high 32 bits of the key, and the roots
QueuedRoots(key, roots) == [lo |-> key[2], hi |-> key[1], newroots |-> roots]

\* a variant that takes the halves the other way round
RootsKeySwapped(keyroots) == <<keyroots.lo, keyroots.hi>>
\* the key as its high and its low 32 bits:
\* jl_svec_ref(keyroots, 0) | (jl_svec_ref(keyroots, 1) << 32)
RootsKey(keyroots) == <<keyroots.hi, keyroots.lo>>
\* jl_array_ptr_ref(roots, j): what the root holds now
RootAt(sl, c) == IF c.slot = 0 THEN c.val ELSE sl[c.slot]
\* ptrhash_get(&uniquing_table, r), if it is there, else r
RootImage(ut, r) == IF r \in DOMAIN ut THEN ut[r] ELSE r

\* jl_append_method_roots(m, key, roots)
jl_append_method_roots(ar, m, key, roots) ==
    (m :> ((IF m \in DOMAIN ar THEN ar[m] ELSE <<>>) \o <<[key |-> key, roots |-> roots]>>))
       @@ ar

\* the loop of jl_copy_roots over the methods in todo
RECURSIVE CopyRootsOf(_, _, _, _, _)
CopyRootsOf(todo, qmr, ut, ar, sl) ==
    IF todo = {} THEN ar
    ELSE LET m == CHOOSE x \in todo : TRUE
             keyroots == qmr[m]
             key == RootsKey(keyroots)
             roots == [j \in 1 .. Len(keyroots.newroots) |->
                         RootImage(ut, RootAt(sl, keyroots.newroots[j]))]
         IN  CopyRootsOf(todo \ {m}, qmr, ut,
                         IF m \in DOMAIN ut
                         THEN jl_append_method_roots(ar, ut[m], key, roots) ELSE ar, sl)

jl_copy_roots(qmr, ut, ar, sl) == CopyRootsOf(DOMAIN qmr, qmr, ut, ar, sl)

(***************************************************************************)
(* The reinit list.                                                        *)
(***************************************************************************)
\* what jl_serialize_generic pushes on reinit_list for the object it enters at
\* position pos: an IdDict is rehashed (1), a worklist module whose parent is
\* outside the worklist is reinserted into its parent (2), a method table is
\* rehashed (3)
ReinitHow(kind) ==
    CASE kind = "IdDict" -> 1
      [] kind = "Module" -> 2
      [] kind = "MethodTable" -> 3
      [] OTHER -> 0

\* reinit_list after the objects objs were entered at positions 1 .. Len(objs)
RECURSIVE ReinitListFrom(_, _)
ReinitListFrom(objs, pos) ==
    IF pos > Len(objs) THEN <<>>
    ELSE (IF ReinitHow(objs[pos]) # 0 THEN <<[pos |-> pos, how |-> ReinitHow(objs[pos])]>>
          ELSE <<>>) \o ReinitListFrom(objs, pos + 1)

\* jl_finalize_serializer: after the module initialization order, each entry
\* of reinit_list as two int32 words, in list order, then -1
RECURSIVE jl_finalize_serializer(_)
jl_finalize_serializer(list) ==
    IF list = <<>> THEN <<0 - 1>>
    ELSE <<list[1].pos, list[1].how>> \o jl_finalize_serializer(Tail(list))

\* jl_reinit_item: what was done to v, and whether an exception was caught
\* (throws: the objects whose reinitialization throws; pushing a method table
\* on tracee_list does not throw)
jl_reinit_item(v, how, throws) ==
    [v |-> v, how |-> how,
     outcome |-> IF how \notin {1, 2, 3} THEN "abort"
                 ELSE IF how \in {1, 2} /\ v \in throws THEN "caught"
                 ELSE "done"]

\* a variant of the replay in which an exception leaves the loop
RECURSIVE FinalizeDeserializerNoCatch(_, _, _, _)
FinalizeDeserializerNoCatch(words, i, bl, throws) ==
    IF words[i] = 0 - 1 THEN <<>>
    ELSE LET r == [pos |-> words[i]] @@ jl_reinit_item(bl[words[i] + 1], words[i + 1], throws)
         IN  IF r.outcome # "done" THEN <<>>
             ELSE <<r>> \o FinalizeDeserializerNoCatch(words, i + 2, bl, throws)

\* the loop of jl_finalize_deserializer from word i on: the entries replayed,
\* each with the position read before it
RECURSIVE jl_finalize_deserializer(_, _, _, _)
jl_finalize_deserializer(words, i, bl, throws) ==
    IF words[i] = 0 - 1 THEN <<>>
    ELSE LET r == [pos |-> words[i]] @@ jl_reinit_item(bl[words[i] + 1], words[i + 1], throws)
         IN  <<r>> \o (IF r.outcome = "abort" THEN <<>>
                       ELSE jl_finalize_deserializer(words, i + 2, bl, throws))

(***************************************************************************)
(* jl_insert_method_instances.                                             *)
(***************************************************************************)
\* the method instances reached from `frontier` along back-edge lists
RECURSIVE BackReach(_, _, _)
BackReach(mis, frontier, seen) ==
    IF frontier \subseteq seen THEN seen
    ELSE LET new == frontier \ seen
         IN  BackReach(mis, UNION {Range(mis[r].backedges) : r \in new}, seen \cup new)

\* invalidate_backedges(&remove_code_instance_from_validation, m, world, ...):
\* every transitive caller has its unbounded code instances capped at `world`,
\* its code instances removed from the validation set and its back-edge list dropped
invalidate_backedges(h, m, world) ==
    LET callers == BackReach(h.mi, Range(h.mi[m].backedges), {})
        hit == UNION {ChainOf(h.ci, h.mi, r) : r \in callers}
    IN  [h EXCEPT
           !.ci = [c \in DOMAIN h.ci |->
                     IF c \in hit /\ h.ci[c].max_world = WorldInf
                     THEN [h.ci[c] EXCEPT !.max_world = world] ELSE h.ci[c]],
           !.validate = h.validate \ hit,
           !.mi = [r \in DOMAIN h.mi |->
                     IF r \in callers \cup {m} THEN [h.mi[r] EXCEPT !.backedges = <<>>]
                     ELSE h.mi[r]]]

\* first loop: is this still the method we'd be calling?
RECURSIVE ValidateMIsFrom(_, _, _, _, _)
ValidateMIsFrom(list, changed, world, i, h) ==
    IF i > Len(list) THEN h
    ELSE LET m == list[i]
         IN  IF changed[m]
             THEN LET h1 == invalidate_backedges(h, m, world)
                      h2 == [h1 EXCEPT !.validate = h1.validate \ ChainOf(h1.ci, h1.mi, m),
                                       !.valids = [h1.valids EXCEPT ![i] = 0]]
                  IN  ValidateMIsFrom(list, changed, world, i + 1, h2)
             ELSE ValidateMIsFrom(list, changed, world, i + 1, h)

\* jl_specializations_get_or_insert: the specialization the session already
\* has for m, else m itself (which is thereby inserted)
jl_specializations_get_or_insert(live, m) == IF live[m] = "none" THEN m ELSE LiveOf(m)

\* a variant that does not look the entry up in uniquing_table
BeLiveUnmapped(uniq, be) == be

\* the live counterpart of a back-edge entry
BeLive(uniq, be) == IF be \in DOMAIN uniq THEN uniq[be] ELSE be

\* third loop: fix up the method instances that did not "go live"
RECURSIVE FixupMIsFrom(_, _, _, _)
FixupMIsFrom(list, uniq, i, h) ==
    IF i > Len(list) THEN h
    ELSE LET m == list[i]
             milive == uniq[m]
             belives == [j \in 1 .. Len(h.mi[m].backedges) |-> BeLive(uniq, h.mi[m].backedges[j])]
             \* only the prefix that was there when the loop started is searched
             missing == SelectSeq(belives, LAMBDA b : b \notin Range(h.mi[milive].backedges))
             mis1 == IF milive # m /\ h.mi[m].backedges # <<>>
                     THEN [h.mi EXCEPT ![milive].backedges =
                              IF h.mi[milive].backedges = <<>> THEN belives
                              ELSE h.mi[milive].backedges \o missing]
                     ELSE h.mi
             cilive == mis1[milive].cache
             chain == ChainFrom(h.ci, h.mi[m].cache)
             transfer == /\ milive # m
                         /\ h.mi[m].cache # NoCI
                         /\ h.valids[i] = 1
                         /\ (cilive = NoCI \/ h.ci[cilive].max_world < WorldInf)
             h1 == IF transfer
                   THEN [h EXCEPT
                           !.mi = [mis1 EXCEPT ![milive].cache = h.mi[m].cache],
                           !.ci = [c \in DOMAIN h.ci |->
                                     IF c \in Range(chain)
                                     THEN [h.ci[c] EXCEPT
                                             !.def = milive,
                                             !.next = IF c = chain[Len(chain)] THEN cilive
                                                      ELSE h.ci[c].next]
                                     ELSE h.ci[c]]]
                   ELSE [h EXCEPT !.mi = mis1]
         IN  FixupMIsFrom(list, uniq, i + 1, h1)

jl_insert_method_instances(list, changed, live, world, h0) ==
    LET h1 == ValidateMIsFrom(list, changed, world, 1,
                              [h0 EXCEPT !.valids = [i \in 1 .. Len(list) |-> 1]])
        uniq == IF list = <<>> THEN <<>>
                ELSE [m \in Range(list) |-> jl_specializations_get_or_insert(live, m)]
        h2 == FixupMIsFrom(list, uniq, 1, h1)
    IN  [h2 EXCEPT !.uniquing = uniq]

(***************************************************************************)
(* jl_verify_edges, jl_insert_backedges, validate_new_code_instances.      *)
(***************************************************************************)
\* a variant that does not compare the lengths of the two lists
VerifyCalleeNoLength(expected, matches) ==
    IF matches = JlFalse THEN 0
    ELSE IF \A k \in 1 .. Len(matches) : \E j \in 1 .. Len(expected) : matches[k] = expected[j]
         THEN 1 ELSE 0

\* one callee of jl_verify_edges: `matches` is what jl_matching_methods
\* answers in the current world, `expected` the list cached at save time
VerifyCallee(expected, matches) ==
    IF matches = JlFalse THEN 0
    ELSE IF Len(matches) # Len(expected) THEN 0
    ELSE IF \A k \in 1 .. Len(matches) : \E j \in 1 .. Len(expected) : matches[k] = expected[j]
         THEN 1 ELSE 0

jl_verify_edges(targets, matching) ==
    [i \in 1 .. Len(targets) |-> VerifyCallee(targets[i].expected, matching[i])]

\* jl_method_instance_add_backedge: push the caller unless it is listed already
jl_method_instance_add_backedge(list, caller) ==
    IF caller \in Range(list) THEN list ELSE Append(list, caller)

\* does every callee index of the edge entry e hold a valid callee?
CallerValid(vs, e) == \A j \in 1 .. Len(e.idxs) : vs[e.idxs[j]] = 1

\* the back-edges of caller e.caller, callee by callee
RECURSIVE AddBackedgesFrom(_, _, _, _, _)
AddBackedgesFrom(targets, has_mt, e, j, b) ==
    IF j > Len(e.idxs) THEN b
    ELSE LET idx == e.idxs[j]
             b1 == IF targets[idx].callee = "mi"
                   THEN [b EXCEPT !.callee[idx] =
                            jl_method_instance_add_backedge(b.callee[idx], e.caller)]
                   ELSE IF has_mt[idx]     \* jl_method_table_for(callee) != jl_nothing
                   THEN [b EXCEPT !.mt = Append(b.mt, <<idx, e.caller>>)]
                   ELSE b
         IN  AddBackedgesFrom(targets, has_mt, e, j + 1, b1)

\* a variant that enables only the head of the caller's chain
InsertBackedgesHeadOnly(targets, has_mt, vs, e, h) ==
    LET chain == ChainOf(h.ci, h.mi, e.caller)
        head == {h.mi[e.caller].cache}
    IN  IF CallerValid(vs, e)
        THEN LET b == AddBackedgesFrom(targets, has_mt, e, 1,
                                       [callee |-> h.callee_backedges, mt |-> h.mt_backedges])
             IN  [h EXCEPT
                    !.callee_backedges = b.callee,
                    !.mt_backedges = b.mt,
                    !.ci = [c \in DOMAIN h.ci |->
                              IF c \in head /\ c \in h.validate /\ h.ci[c].min_world > 0
                              THEN [h.ci[c] EXCEPT !.max_world = WorldInf] ELSE h.ci[c]],
                    !.validate = h.validate \ chain]
        ELSE [h EXCEPT !.validate = h.validate \ chain]

\* a variant that leaves the code instances of an invalid caller in the
\* validation set
InsertBackedgesKeepInvalid(targets, has_mt, vs, e, h) ==
    LET chain == ChainOf(h.ci, h.mi, e.caller)
    IN  IF CallerValid(vs, e)
        THEN LET b == AddBackedgesFrom(targets, has_mt, e, 1,
                                       [callee |-> h.callee_backedges, mt |-> h.mt_backedges])
             IN  [h EXCEPT
                    !.callee_backedges = b.callee,
                    !.mt_backedges = b.mt,
                    !.ci = [c \in DOMAIN h.ci |->
                              IF c \in chain /\ c \in h.validate /\ h.ci[c].min_world > 0
                              THEN [h.ci[c] EXCEPT !.max_world = WorldInf] ELSE h.ci[c]],
                    !.validate = h.validate \ chain]
        ELSE h

\* one iteration of the loop of jl_insert_backedges
InsertBackedgesOf(targets, has_mt, vs, e, h) ==
    LET chain == ChainOf(h.ci, h.mi, e.caller)
    IN  IF CallerValid(vs, e)
        THEN LET b == AddBackedgesFrom(targets, has_mt, e, 1,
                                       [callee |-> h.callee_backedges, mt |-> h.mt_backedges])
             IN  [h EXCEPT
                    !.callee_backedges = b.callee,
                    !.mt_backedges = b.mt,
                    !.ci = [c \in DOMAIN h.ci |->
                              IF c \in chain /\ c \in h.validate /\ h.ci[c].min_world > 0
                              THEN [h.ci[c] EXCEPT !.max_world = WorldInf] ELSE h.ci[c]],
                    !.validate = h.validate \ chain]
        ELSE [h EXCEPT !.validate = h.validate \ chain]

RECURSIVE InsertBackedgesFrom(_, _, _, _, _, _)
InsertBackedgesFrom(list, targets, has_mt, vs, i, h) ==
    IF i > Len(list) THEN h
    ELSE InsertBackedgesFrom(list, targets, has_mt, vs, i + 1,
                             InsertBackedgesOf(targets, has_mt, vs, list[i], h))

\* a variant that promotes every code instance that was decoded with its
\* validate flag set, whether or not it is still in the set
ValidateAllDecoded(cis, validate) ==
    [c \in DOMAIN cis |->
       IF c[1] > 0 /\ cis[c].min_world > 0 THEN [cis[c] EXCEPT !.max_world = WorldInf] ELSE cis[c]]

validate_new_code_instances(cis, validate) ==
    [c \in DOMAIN cis |-> IF c \in validate THEN [cis[c] EXCEPT !.max_world = WorldInf] ELSE cis[c]]

(***************************************************************************)
(* _jl_restore_incremental.                                                *)
(***************************************************************************)
\* the tables created before decoding starts
PerLoadTables == {"backref_list", "flagref_list", "queued_method_roots",
                  "new_code_instance_validate", "ccallable_list", "uniquing_table"}

\* a variant in which jl_recache_other runs before jl_insert_methods
LoadStepsSwapped == <<"jl_recache_types", "jl_recache_other", "jl_insert_methods", "jl_copy_roots",
                      "jl_insert_method_instances", "jl_finalize_deserializer", "jl_gc_enable",
                      "jl_verify_edges", "jl_insert_backedges", "validate_new_code_instances",
                      "cleanup", "finish">>

\* a variant in which the reinit list is replayed after the code instances are
\* validated
LoadStepsReinitLast == <<"jl_recache_types", "jl_insert_methods", "jl_recache_other",
                         "jl_copy_roots", "jl_insert_method_instances", "jl_gc_enable",
                         "jl_verify_edges", "jl_insert_backedges",
                         "validate_new_code_instances", "jl_finalize_deserializer",
                         "cleanup", "finish">>

\* the statements that follow the decode, in program order
LoadSteps == <<"jl_recache_types", "jl_insert_methods", "jl_recache_other", "jl_copy_roots",
               "jl_insert_method_instances", "jl_finalize_deserializer", "jl_gc_enable",
               "jl_verify_edges", "jl_insert_backedges", "validate_new_code_instances",
               "cleanup", "finish">>

\* the position after statement p
NextStep(p) ==
    LET i == CHOOSE k \in 1 .. Len(LoadSteps) : LoadSteps[k] = p
    IN  IF i = Len(LoadSteps) THEN "done" ELSE LoadSteps[i + 1]

\* the heap as the fix-up operators thread it
Heap == [ci |-> ci, mi |-> mi, validate |-> new_code_instance_validate, valids |-> mi_valid,
         uniquing |-> uniquing, callee_backedges |-> callee_backedges,
         mt_backedges |-> mt_backedges]

\* the heap as jl_recache_types and jl_recache_other thread it
FlagHeap == [slots |-> slots, backref_list |-> backref_list, uniquing_table |-> uniquing_table,
             flagref_list |-> flagref_list, abort |-> FALSE, type_cache |-> type_cache,
             type_tags |-> type_tags, params |-> f.p.params, objs |-> f.p.objs]

\* ios_eof(f) || !jl_read_verify_header(f)
VerifyHeader ==
    /\ pc = "start"
    /\ IF f.header = <<>> \/ ~jl_read_verify_header(f.header)
       THEN /\ pc' = "done"
            /\ ret' = "Precompile file header verification checks failed."
       ELSE /\ pc' = "read_verify_mod_list"
            /\ ret' = ret
    /\ UNCHANGED savevars
    /\ UNCHANGED <<ji, wire, type_cache, type_tags, appended_roots, f, rt, jl_world_counter, gc_enabled, finalizers_inhibited,
                   serializer_worklist, en, tables, new_code_instance_validate, flagref_list,
                   ci, mi, uniquing, uniquing_table, slots, methods, mi_valid, specializations, mt_defs, valids,
                   callee_backedges, mt_backedges, reinit_done, passes, entry, queued_method_roots, calls>>

\* a variant that reserves the world age before the manifest is verified
VerifyModListLate ==
    /\ pc = "read_verify_mod_list"
    /\ jl_world_counter' = jl_world_counter + 1
    /\ LET verify_fail == read_verify_mod_list(f.modlist, rt.mod_array, rt.main_build_id)
       IN  IF verify_fail # NULL
           THEN pc' = "done" /\ ret' = verify_fail
           ELSE pc' = "prepare" /\ ret' = ret
    /\ UNCHANGED savevars
    /\ UNCHANGED <<ji, wire, type_cache, type_tags, appended_roots, f, rt, gc_enabled, finalizers_inhibited,
                   serializer_worklist, en, tables, new_code_instance_validate, flagref_list,
                   ci, mi, uniquing, uniquing_table, slots, methods, mi_valid, specializations, mt_defs, valids,
                   callee_backedges, mt_backedges, reinit_done, passes, entry, queued_method_roots, calls>>

\* the manifest and dependency list are skipped, then read_verify_mod_list
VerifyModList ==
    /\ pc = "read_verify_mod_list"
    /\ LET verify_fail == read_verify_mod_list(f.modlist, rt.mod_array, rt.main_build_id)
       IN  IF verify_fail # NULL
           THEN pc' = "done" /\ ret' = verify_fail
           ELSE pc' = "prepare" /\ ret' = ret
    /\ UNCHANGED savevars
    /\ UNCHANGED <<ji, wire, type_cache, type_tags, appended_roots, f, rt, jl_world_counter, gc_enabled, finalizers_inhibited,
                   serializer_worklist, en, tables, new_code_instance_validate, flagref_list,
                   ci, mi, uniquing, uniquing_table, slots, methods, mi_valid, specializations, mt_defs, valids,
                   callee_backedges, mt_backedges, reinit_done, passes, entry, queued_method_roots, calls>>

\* "prepare to deserialize"
Prepare ==
    /\ pc = "prepare"
    /\ en' = gc_enabled
    /\ gc_enabled' = FALSE
    /\ finalizers_inhibited' = finalizers_inhibited + 1
    /\ jl_world_counter' = jl_world_counter + 1
    /\ tables' = tables \cup PerLoadTables
    /\ backref_list' = <<MainModule>>
    /\ flagref_list' = <<>>
    /\ new_code_instance_validate' = {}
    /\ uniquing' = <<>>
    /\ uniquing_table' = <<>>
    /\ queued_method_roots' = <<>>
    /\ pc' = "decode"
    /\ UNCHANGED <<streamvars, slots, methods>>
    /\ UNCHANGED <<ji, wire, type_cache, type_tags, appended_roots, f, rt, serializer_worklist, ret, ci, mi, mi_valid, specializations, mt_defs,
                   valids, callee_backedges, mt_backedges, reinit_done, passes, entry, calls>>

\* the worklist, extext_methods, mi_list, edges and ext_targets are decoded:
\* every new object is pushed on backref_list, an external type is entered in
\* uniquing_table with NULL, and the flagged references are recorded
Decode ==
    /\ pc = "decode"
    /\ serializer_worklist' = Ptr(f.p.worklist)
    /\ ci' = ci @@ [c \in DecodedCIs(f.p) |->
                      jl_deserialize_value_code_instance(c[1], c[2], Len(f.p.chain[c[1]]),
                                                         f.p.chain[c[1]][c[2]], jl_world_counter)]
    /\ mi' = mi @@ [m \in MethodInsts |->
                      [cache |-> IF f.p.chain[m] = <<>> THEN NoCI ELSE <<m, 1>>,
                       backedges |-> f.p.mi_backedges[m]]]
    /\ new_code_instance_validate' = DecodedValidate(f.p)
    /\ backref_list' = backref_list \o [k \in 1 .. Len(f.p.objs) |-> <<f.p.objs[k], k>>]
    /\ slots' = f.p.slots
    /\ methods' = [k \in {j \in 1 .. Len(f.p.objs) : f.p.objs[j] \in {"method", "imethod"}} |->
                      jl_deserialize_value_method(f.p.objs[k] = "imethod", jl_world_counter)]
    /\ flagref_list' = f.p.flagrefs
    /\ uniquing_table' = [dt \in {<<"datatype", k>> : k \in {j \in 1 .. Len(f.p.objs) :
                                                           f.p.objs[j] = "datatype"}} |-> NullPtr]
    /\ queued_method_roots' =
          [m \in {<<"method", k>> : k \in {j \in 1 .. Len(f.p.objs) : f.p.objs[j] = "method"}} |->
              QueuedRoots(f.p.key, f.p.newroots[m[2]])] @@ queued_method_roots
    /\ passes' = Append(passes, "decode")
    /\ pc' = LoadSteps[1]
    /\ UNCHANGED streamvars
    /\ UNCHANGED <<ji, wire, type_cache, type_tags, appended_roots, f, rt, jl_world_counter, gc_enabled, finalizers_inhibited, en, ret, tables,
                   uniquing, mi_valid, specializations, mt_defs, valids, callee_backedges,
                   mt_backedges, reinit_done, entry, calls>>

RecacheTypes ==
    /\ pc = "jl_recache_types"
    /\ LET h == jl_recache_types(FlagHeap)
       IN  /\ slots' = h.slots
           /\ backref_list' = h.backref_list
           /\ uniquing_table' = h.uniquing_table
           /\ flagref_list' = h.flagref_list
           /\ type_cache' = h.type_cache
           /\ type_tags' = h.type_tags
    /\ passes' = Append(passes, pc)
    /\ pc' = NextStep(pc)
    /\ UNCHANGED <<streamvars, methods>>
    /\ UNCHANGED <<ji, wire, appended_roots, f, rt, jl_world_counter, gc_enabled, finalizers_inhibited,
                   serializer_worklist, en, ret, tables, new_code_instance_validate,
                   ci, mi, uniquing, mi_valid, specializations, mt_defs, valids,
                   callee_backedges, mt_backedges, reinit_done, entry, queued_method_roots, calls>>

InsertMethods ==
    /\ pc = "jl_insert_methods"
    /\ mt_defs' = mt_defs \cup Range(f.p.extext_methods)
    /\ passes' = Append(passes, pc)
    /\ pc' = NextStep(pc)
    /\ UNCHANGED savevars
    /\ UNCHANGED <<ji, wire, type_cache, type_tags, appended_roots, f, rt, jl_world_counter, gc_enabled, finalizers_inhibited,
                   serializer_worklist, en, ret, tables, new_code_instance_validate,
                   flagref_list, ci, mi, uniquing, uniquing_table, slots, methods, mi_valid, specializations, valids,
                   callee_backedges, mt_backedges, reinit_done, entry, queued_method_roots, calls>>

\* jl_recache_other; an entry that is neither a method nor a method instance
\* ends the process in abort()
RecacheOther ==
    /\ pc = "jl_recache_other"
    /\ LET h == jl_recache_other(FlagHeap)
       IN  /\ slots' = h.slots
           /\ backref_list' = h.backref_list
           /\ uniquing_table' = h.uniquing_table
           /\ flagref_list' = h.flagref_list
           /\ passes' = IF h.abort THEN passes ELSE Append(passes, pc)
           /\ pc' = IF h.abort THEN "abort" ELSE NextStep(pc)
    /\ UNCHANGED <<streamvars, methods>>
    /\ UNCHANGED <<ji, wire, type_cache, type_tags, appended_roots, f, rt, jl_world_counter, gc_enabled, finalizers_inhibited,
                   serializer_worklist, en, ret, tables, new_code_instance_validate,
                   ci, mi, uniquing, mi_valid, specializations, mt_defs, valids,
                   callee_backedges, mt_backedges, reinit_done, entry, queued_method_roots, calls>>

\* jl_copy_roots; a method that has no entry in uniquing_table is looked up
\* as HT_NOTFOUND, and appending to it is undefined
CopyRoots ==
    /\ pc = "jl_copy_roots"
    /\ appended_roots' = jl_copy_roots(queued_method_roots, uniquing_table, appended_roots, slots)
    /\ IF DOMAIN queued_method_roots \subseteq DOMAIN uniquing_table
       THEN passes' = Append(passes, pc) /\ pc' = NextStep(pc)
       ELSE passes' = passes /\ pc' = "abort"
    /\ UNCHANGED savevars
    /\ UNCHANGED <<ji, wire, type_cache, type_tags, f, rt, jl_world_counter, gc_enabled, finalizers_inhibited,
                   serializer_worklist, en, ret, tables, new_code_instance_validate,
                   flagref_list, ci, mi, uniquing, uniquing_table, slots, methods, mi_valid, specializations, mt_defs, valids,
                   callee_backedges, mt_backedges, reinit_done, entry, queued_method_roots, calls>>

InsertMethodInstances ==
    /\ pc = "jl_insert_method_instances"
    /\ LET h == jl_insert_method_instances(f.p.mi_list, rt.dispatch_changed, rt.live,
                                           jl_world_counter, Heap)
       IN  /\ ci' = h.ci
           /\ mi' = h.mi
           /\ new_code_instance_validate' = h.validate
           /\ mi_valid' = h.valids
           /\ uniquing' = h.uniquing
    /\ specializations' = specializations \cup
                            {m \in Range(f.p.mi_list) : rt.live[m] = "none"}
    /\ passes' = Append(passes, pc)
    /\ pc' = NextStep(pc)
    /\ UNCHANGED savevars
    /\ UNCHANGED <<ji, wire, type_cache, type_tags, appended_roots, f, rt, jl_world_counter, gc_enabled, finalizers_inhibited,
                   serializer_worklist, en, ret, tables, flagref_list, mt_defs, valids,
                   callee_backedges, mt_backedges, reinit_done, entry, uniquing_table, slots,
                   methods, queued_method_roots, calls>>

\* htable_free(&uniquing_table), then jl_finalize_deserializer: the module
\* initialization order is decoded and the reinit entries are replayed, each
\* on the object backref_list holds at its position; an entry of an unknown
\* kind ends the process in abort()
FinalizeDeserializer ==
    /\ pc = "jl_finalize_deserializer"
    /\ tables' = tables \ {"uniquing_table"}
    /\ uniquing' = <<>>
    /\ uniquing_table' = <<>>
    /\ LET done == jl_finalize_deserializer(f.p.reinit, 1, backref_list, rt.reinit_throws)
       IN  /\ reinit_done' = reinit_done \o done
           /\ IF \E i \in 1 .. Len(done) : done[i].outcome = "abort"
              THEN pc' = "abort" /\ passes' = passes
              ELSE pc' = NextStep(pc) /\ passes' = Append(passes, pc)
    /\ UNCHANGED <<savevars, slots, methods>>
    /\ UNCHANGED <<ji, wire, type_cache, type_tags, appended_roots, f, rt, jl_world_counter, gc_enabled, finalizers_inhibited,
                   serializer_worklist, en, ret, new_code_instance_validate, flagref_list,
                   ci, mi, mi_valid, specializations, mt_defs, valids, callee_backedges,
                   mt_backedges, entry, queued_method_roots, calls>>

\* a variant that switches the GC on whatever its state was before the load
RestoreGCOn ==
    /\ pc = "jl_gc_enable"
    /\ gc_enabled' = TRUE
    /\ pc' = NextStep(pc)
    /\ UNCHANGED savevars
    /\ UNCHANGED <<ji, wire, type_cache, type_tags, appended_roots, f, rt, jl_world_counter, finalizers_inhibited, serializer_worklist, en, ret,
                   tables, new_code_instance_validate, flagref_list, ci, mi, uniquing, uniquing_table, slots, methods, mi_valid,
                   specializations, mt_defs, valids, callee_backedges, mt_backedges,
                   reinit_done, passes, entry, queued_method_roots, calls>>

\* jl_gc_enable(en), before the back-edges are restored
RestoreGC ==
    /\ pc = "jl_gc_enable"
    /\ gc_enabled' = en
    /\ pc' = NextStep(pc)
    /\ UNCHANGED savevars
    /\ UNCHANGED <<ji, wire, type_cache, type_tags, appended_roots, f, rt, jl_world_counter, finalizers_inhibited, serializer_worklist, en, ret,
                   tables, new_code_instance_validate, flagref_list, ci, mi, uniquing, uniquing_table, slots, methods, mi_valid,
                   specializations, mt_defs, valids, callee_backedges, mt_backedges,
                   reinit_done, passes, entry, queued_method_roots, calls>>

\* the first statement of jl_insert_backedges
VerifyEdges ==
    /\ pc = "jl_verify_edges"
    /\ valids' = jl_verify_edges(f.p.ext_targets, rt.matching)
    /\ passes' = Append(passes, pc)
    /\ pc' = NextStep(pc)
    /\ UNCHANGED savevars
    /\ UNCHANGED <<ji, wire, type_cache, type_tags, appended_roots, f, rt, jl_world_counter, gc_enabled, finalizers_inhibited,
                   serializer_worklist, en, ret, tables, new_code_instance_validate,
                   flagref_list, ci, mi, uniquing, uniquing_table, slots, methods, mi_valid, specializations, mt_defs,
                   callee_backedges, mt_backedges, reinit_done, entry, queued_method_roots, calls>>

\* the loop of jl_insert_backedges over the callers of edges
InsertBackedges ==
    /\ pc = "jl_insert_backedges"
    /\ LET h == InsertBackedgesFrom(f.p.edges, f.p.ext_targets, rt.has_mt, valids, 1, Heap)
       IN  /\ ci' = h.ci
           /\ new_code_instance_validate' = h.validate
           /\ callee_backedges' = h.callee_backedges
           /\ mt_backedges' = h.mt_backedges
    /\ passes' = Append(passes, pc)
    /\ pc' = NextStep(pc)
    /\ UNCHANGED savevars
    /\ UNCHANGED <<ji, wire, type_cache, type_tags, appended_roots, f, rt, jl_world_counter, gc_enabled, finalizers_inhibited,
                   serializer_worklist, en, ret, tables, flagref_list, mi, uniquing, uniquing_table, slots, methods, mi_valid,
                   specializations, mt_defs, valids, reinit_done, entry, queued_method_roots, calls>>

ValidateNewCodeInstances ==
    /\ pc = "validate_new_code_instances"
    /\ ci' = validate_new_code_instances(ci, new_code_instance_validate)
    /\ passes' = Append(passes, pc)
    /\ pc' = NextStep(pc)
    /\ UNCHANGED savevars
    /\ UNCHANGED <<ji, wire, type_cache, type_tags, appended_roots, f, rt, jl_world_counter, gc_enabled, finalizers_inhibited,
                   serializer_worklist, en, ret, tables, new_code_instance_validate,
                   flagref_list, mi, uniquing, uniquing_table, slots, methods, mi_valid, specializations, mt_defs, valids,
                   callee_backedges, mt_backedges, reinit_done, entry, queued_method_roots, calls>>

\* serializer_worklist is cleared, the tables are freed, the file is closed and
\* finalizers are allowed again
Cleanup ==
    /\ pc = "cleanup"
    /\ serializer_worklist' = NullPtr
    /\ tables' = tables \ {"new_code_instance_validate", "flagref_list", "backref_list",
                           "queued_method_roots"}
    /\ new_code_instance_validate' = {}
    /\ flagref_list' = <<>>
    /\ backref_list' = <<>>
    /\ queued_method_roots' = <<>>
    /\ finalizers_inhibited' = finalizers_inhibited - 1
    /\ pc' = NextStep(pc)
    /\ UNCHANGED streamvars
    /\ UNCHANGED <<ji, wire, type_cache, type_tags, appended_roots, f, rt, jl_world_counter, gc_enabled, en, ret, ci, mi, uniquing, uniquing_table, slots, methods, mi_valid,
                   specializations, mt_defs, valids, callee_backedges, mt_backedges,
                   reinit_done, passes, entry, calls>>

\* the @ccallable entries are compiled, ccallable_list is freed, and the pair
\* (restored, init_order) is returned
Finish ==
    /\ pc = "finish"
    /\ tables' = tables \ {"ccallable_list"}
    /\ ret' = "restored"
    /\ pc' = NextStep(pc)
    /\ UNCHANGED savevars
    /\ UNCHANGED <<ji, wire, type_cache, type_tags, appended_roots, f, rt, jl_world_counter, gc_enabled, finalizers_inhibited,
                   serializer_worklist, en, new_code_instance_validate, flagref_list, ci, mi,
                   uniquing, uniquing_table, slots, methods, mi_valid, specializations, mt_defs, valids, callee_backedges,
                   mt_backedges, reinit_done, passes, entry, queued_method_roots, calls>>

Next ==
    \/ VerifyHeader
    \/ VerifyModList
    \/ Prepare
    \/ Decode
    \/ RecacheTypes
    \/ InsertMethods
    \/ RecacheOther
    \/ CopyRoots
    \/ InsertMethodInstances
    \/ FinalizeDeserializer
    \/ RestoreGC
    \/ VerifyEdges
    \/ InsertBackedges
    \/ ValidateNewCodeInstances
    \/ Cleanup
    \/ Finish

(***************************************************************************)
(* What a save collects from the session.  The session is a call graph g:   *)
(* g[m] describes method instance m by in_worklist (its method's module is *)
(* in the worklist), is_method (its def is a method), precompiled,          *)
(* relocatability (of the code instances on its cache chain) and backedges *)
(* (its callers).  A callee is a method instance <<"mi", m>> or the         *)
(* signature of an abstract call <<"sig", k>>.                              *)
(***************************************************************************)
\* method instances of the saving session
NumSMI == 3
SMIs == 1 .. NumSMI
MICallee(m) == <<"mi", m>>
SigCallee(k) == <<"sig", k>>

\* a set as a table lists it: one order of its elements
RECURSIVE TableOrder(_)
TableOrder(S) ==
    IF S = {} THEN <<>>
    ELSE LET x == CHOOSE y \in S : TRUE IN <<x>> \o TableOrder(S \ {x})

\* the orders in which a table may list the keys S
KeyOrders(S) == {o \in [1 .. Cardinality(S) -> S] : IsInjective(o)}

\* visited[m] is 1 for "doesn't link back" and 2 for "does link back"; the
\* answer is returned with the table as the call left it
RECURSIVE has_backedge_to_worklist(_, _, _)
RECURSIVE BackedgesLinkBack(_, _, _, _, _)
has_backedge_to_worklist(g, m, visited) ==
    IF m \in DOMAIN visited THEN [r |-> visited[m] - 1, visited |-> visited]
    ELSE IF g[m].precompiled \/ g[m].in_worklist
    THEN [r |-> 1, visited |-> (m :> 2) @@ visited]
    ELSE BackedgesLinkBack(g, m, g[m].backedges, 1, (m :> 1) @@ visited)

\* the loop over mi->backedges, from the i-th
BackedgesLinkBack(g, m, backedges, i, visited) ==
    IF i > Len(backedges) THEN [r |-> 0, visited |-> visited]
    ELSE LET be == has_backedge_to_worklist(g, backedges[i], visited)
         IN  IF be.r = 1 THEN [r |-> 1, visited |-> (m :> 2) @@ be.visited]
             ELSE BackedgesLinkBack(g, m, backedges, i + 1, be.visited)

\* a variant that does not read the cache chain
RelocatableUnread(chain) == 1

\* relocatable |= ci->relocatability over the cache chain
Relocatable(chain) == IF \E k \in 1 .. Len(chain) : chain[k] # 0 THEN 1 ELSE 0

\* the loop of queue_external_mis over list, from the i-th: the set
\* external_mis, the count n and the table visited
RECURSIVE QueueFrom(_, _, _, _, _, _)
QueueFrom(g, list, i, q, n, visited) ==
    IF i > Len(list) THEN [external_mis |-> q, n |-> n, visited |-> visited]
    ELSE LET m == list[i]
             h == has_backedge_to_worklist(g, m, visited)
         IN  IF g[m].is_method /\ ~g[m].in_worklist
                  /\ Relocatable(g[m].relocatability) # 0 /\ m \notin q
             THEN IF h.r = 1
                  THEN QueueFrom(g, list, i + 1, q \cup {m}, n + 1, h.visited)
                  ELSE QueueFrom(g, list, i + 1, q, n, h.visited)
             ELSE QueueFrom(g, list, i + 1, q, n, visited)

\* a newly_inferred of NULL is the empty list: n stays 0
queue_external_mis(g, list, q) == QueueFrom(g, list, 1, q, 0, <<>>)

\* edges_map maps a caller to its callees; a key whose value is HT_NOTFOUND
\* is no key of the map
PushEdge(em, caller, c) ==
    IF caller \in DOMAIN em THEN [em EXCEPT ![caller] = Append(@, c)]
    ELSE (caller :> <<c>>) @@ em

\* collect_backedges(callee), from the i-th caller
RECURSIVE collect_backedges(_, _, _, _)
collect_backedges(em, g, callee, i) ==
    IF i > Len(g[callee].backedges) THEN em
    ELSE collect_backedges(PushEdge(em, g[callee].backedges[i], MICallee(callee)),
                           g, callee, i + 1)

\* the specializations of the methods outside the worklist, from the m-th:
\* those not in the queue have their back-edges collected
RECURSIVE jl_collect_methcache_from_mod(_, _, _, _)
jl_collect_methcache_from_mod(em, g, q, m) ==
    IF m > NumSMI THEN em
    ELSE jl_collect_methcache_from_mod(
            IF g[m].is_method /\ ~g[m].in_worklist /\ m \notin q
            THEN collect_backedges(em, g, m, 1) ELSE em,
            g, q, m + 1)

\* mt->backedges: pairs (signature, caller), from the i-th
RECURSIVE jl_collect_missing_backedges_to_mod(_, _, _)
jl_collect_missing_backedges_to_mod(em, missing, i) ==
    IF i > Len(missing) THEN em
    ELSE jl_collect_missing_backedges_to_mod(
            PushEdge(em, missing[i].caller, SigCallee(missing[i].sig)), missing, i + 1)

\* the forward-edge map jl_save_incremental builds before jl_collect_backedges
BuildEdgesMap(em, g, q, missing) ==
    jl_collect_missing_backedges_to_mod(jl_collect_methcache_from_mod(em, g, q, 1), missing, 1)

DropKey(em, k) == [x \in DOMAIN em \ {k} |-> em[x]]

\* jl_collect_backedges_to: the entry of caller is taken out of the map, and
\* its callees and theirs are put into all_callees
RECURSIVE jl_collect_backedges_to(_, _, _)
RECURSIVE FlattenCallees(_, _, _, _)
jl_collect_backedges_to(em, caller, all) ==
    IF caller \notin DOMAIN em THEN [em |-> em, all |-> all]
    ELSE FlattenCallees(DropKey(em, caller), em[caller], 1, all)

\* the loop over callees, from the i-th
FlattenCallees(em, callees, i, all) ==
    IF i > Len(callees) THEN [em |-> em, all |-> all]
    ELSE IF callees[i][1] = "mi"
    THEN LET r == jl_collect_backedges_to(em, callees[i][2], all \cup {callees[i]})
         IN  FlattenCallees(r.em, callees, i + 1, r.all)
    ELSE FlattenCallees(em, callees, i + 1, all \cup {callees[i]})

\* what jl_matching_methods answers for a callee while saving: the one method
\* it matches, or jl_false for the callees of unmatched
SaveMatching(c, unmatched) == IF c \in unmatched THEN JlFalse ELSE <<1>>

\* the index in t of callee c, or 0 (all_targets)
TargetIndex(t, c) ==
    IF \E k \in 1 .. Len(t) : t[k].callee = c
    THEN CHOOSE k \in 1 .. Len(t) : t[k].callee = c ELSE 0

\* the loop over all_callees, from the j-th: the indices of the callees in
\* ext_targets, which grows by the callees it does not hold yet
RECURSIVE IndexCallees(_, _, _, _, _)
IndexCallees(pc_, j, t, callees, unmatched) ==
    IF j > Len(pc_) THEN [valid |-> TRUE, t |-> t, callees |-> callees]
    ELSE LET callee == pc_[j]
             matches == SaveMatching(callee, unmatched)
         IN  IF TargetIndex(t, callee) # 0
             THEN IndexCallees(pc_, j + 1, t, Append(callees, TargetIndex(t, callee) - 1),
                               unmatched)
             ELSE IF matches = JlFalse THEN [valid |-> FALSE, t |-> t, callees |-> callees]
             ELSE IndexCallees(pc_, j + 1, Append(t, [callee |-> callee, matches |-> matches]),
                               Append(callees, Len(t)), unmatched)

\* the loop of jl_collect_backedges over the table edges_map in the order
\* `order`, from the i-th key: edges s and ext_targets t
RECURSIVE jl_collect_backedges(_, _, _, _, _, _, _, _)
jl_collect_backedges(order, i, em, g, q, unmatched, s, t) ==
    IF i > Len(order) THEN [edges_map |-> em, s |-> s, t |-> t]
    ELSE LET caller == order[i]
             fl == FlattenCallees(em, em[caller], 1, {})
             ix == IndexCallees(TableOrder(fl.all), 1, t, <<>>, unmatched)
         IN  IF caller \in DOMAIN em /\ (g[caller].in_worklist \/ caller \in q)
             THEN jl_collect_backedges(order, i + 1, fl.em, g, q, unmatched,
                                       IF ix.valid
                                       THEN Append(s, [caller |-> caller, idxs |-> ix.callees])
                                       ELSE s,
                                       ix.t)
             ELSE jl_collect_backedges(order, i + 1, em, g, q, unmatched, s, t)

(***************************************************************************)
(* The inputs of a load: cache files and sessions.                         *)
(***************************************************************************)
\* the kinds of object whose references are flagged, and those that are
\* entered on the reinit list or are plain
FlaggedKinds == {"datatype", "singleton", "method", "mi"}
PlainKinds == {"IdDict", "Module", "Submodule", "MethodTable"}

\* the kinds of the objects of a payload, in backref order: a singleton is
\* followed by its type and an external method instance by its method
WellFormedObjs(objs) ==
    \A k \in 1 .. Len(objs) :
        /\ objs[k] = "singleton" => k < Len(objs) /\ objs[k + 1] = "datatype"
        /\ objs[k] = "mi" => k < Len(objs) /\ objs[k + 1] = "method"
ObjSeqs(kinds) == {objs \in SeqsUpTo(kinds, MaxObjs) : WellFormedObjs(objs)}

\* the positions of the flagged objects in the order their entries are pushed:
\* a type and a singleton are pushed when they are created, a method instance
\* after the method it specializes has been decoded
RECURSIVE PushOrder(_, _)
PushOrder(objs, k) ==
    IF k > Len(objs) THEN <<>>
    ELSE IF objs[k] = "mi" THEN <<k + 1, k>> \o PushOrder(objs, k + 2)
    ELSE IF objs[k] \in FlaggedKinds THEN <<k>> \o PushOrder(objs, k + 1)
    ELSE PushOrder(objs, k + 1)

\* the type of a singleton is decoded without a location, and so is every type
\* in noloc
NoLoc(objs, noloc) ==
    noloc \cup {k \in 2 .. Len(objs) : objs[k] = "datatype" /\ objs[k - 1] = "singleton"}

\* flagref_list as the decode leaves it: one entry for each flagged object
DecodedFlagrefs(objs, noloc) ==
    LET order == PushOrder(objs, 1)
    IN  [i \in 1 .. Len(order) |->
           [loc |-> IF order[i] \in NoLoc(objs, noloc) THEN 0 ELSE order[i], offs |-> order[i]]]

\* a flagged back reference to the object at position r, decoded into one more
\* location once the first j entries were pushed
WithBackref(objs, list, r, j) ==
    SubSeq(list, 1, j) \o <<[loc |-> Len(objs) + 1, offs |-> 0 - 1]>>
      \o SubSeq(list, j + 1, Len(list))

\* the index of the entry that was pushed for the object at position r
EntryOf(list, r) == CHOOSE i \in 1 .. Len(list) : list[i].offs = r

\* the new roots of the external method at position k: a symbol, then the
\* locations behind the method into which flagged objects are decoded, up to
\* the next method.  A type without a location and the method of a method
\* instance are not decoded into a root
NewRoots(objs, noloc, nslots, k) ==
    LET cell == {h \in (k + 1) .. nslots :
                    /\ h \notin NoLoc(objs, noloc)
                    /\ h <= Len(objs) => objs[h - 1] # "mi"
                    /\ \A g \in (k + 1) .. (h - 1) : g <= Len(objs) => objs[g] # "method"}
    IN  <<[slot |-> 0, val |-> <<"symbol", 0>>]>>
          \o SelectSeq([h \in 1 .. nslots |-> [slot |-> h, val |-> <<"slot", h>>]],
                       LAMBDA c : c.slot \in cell)

\* the payload that decodes objs, with the types in noloc decoded without a
\* location, and with a back reference to r after j entries when r is not 0
ObjPayload(p, objs, noloc, r, j) ==
    LET first == DecodedFlagrefs(objs, noloc)
        placeholders == [k \in 1 .. Len(objs) |-> <<objs[k], k>>]
    IN  [p EXCEPT !.objs = objs,
                  !.newroots = [k \in {h \in 1 .. Len(objs) : objs[h] = "method"} |->
                                  NewRoots(objs, noloc,
                                           IF r = 0 THEN Len(objs) ELSE Len(objs) + 1, k)],
                  !.slots = IF r = 0 THEN placeholders ELSE Append(placeholders, placeholders[r]),
                  !.flagrefs = IF r = 0 THEN first ELSE WithBackref(objs, first, r, j),
                  !.reinit_list = ReinitListFrom(objs, 1),
                  !.reinit = jl_finalize_serializer(ReinitListFrom(objs, 1))]

\* the payloads that decode objs
ObjPayloads(p, objs) ==
    LET types == {k \in 1 .. Len(objs) : objs[k] = "datatype"}
        flagged == {k \in 1 .. Len(objs) : objs[k] \in FlaggedKinds}
    IN  {ObjPayload(p, objs, noloc, 0, 0) : noloc \in SUBSET types}
          \cup UNION {{ObjPayload(p, objs, noloc, r, j) :
                          j \in (IF objs[r] \in {"method", "mi"}
                                 THEN EntryOf(DecodedFlagrefs(objs, noloc), r) - 1
                                 ELSE EntryOf(DecodedFlagrefs(objs, noloc), r))
                                .. Len(DecodedFlagrefs(objs, noloc))} :
                      noloc \in SUBSET types, r \in flagged}

\* a loaded module as read_verify_mod_list compares it
ModA == [name |-> "A", uuid |-> [hi |-> 1, lo |-> 1], build_id |-> 1, is_module |-> TRUE]
ModVariants == {ModA, [ModA EXCEPT !.name = "B"], [ModA EXCEPT !.uuid.hi = 2],
                [ModA EXCEPT !.uuid.lo = 2], [ModA EXCEPT !.build_id = 2],
                [ModA EXCEPT !.is_module = FALSE]}
\* the entries write_mod_list wrote: modules of the saving session
FileMods == {ModA, [ModA EXCEPT !.name = "B"]}

\* target i of ext_targets: odd entries are method instances, even entries
\* signatures; every callee matched one method when the file was saved
TargetAt(i) == [callee |-> IF i % 2 = 1 THEN "mi" ELSE "sig", expected |-> <<1>>]
ExtTargets == [i \in Targets |-> TargetAt(i)]
\* what jl_matching_methods answers now: the same method, or one more
MatchingOf(ok) == [i \in Targets |-> IF ok[i] THEN <<1>> ELSE <<1, NumMethods>>]

BasePayload ==
    [worklist       |-> <<"Mod">>,
     extext_methods |-> <<>>,
     mi_list        |-> <<>>,
     chain          |-> [m \in MethodInsts |-> <<TRUE>>],
     mi_backedges   |-> [m \in MethodInsts |-> <<>>],
     edges          |-> <<>>,
     ext_targets    |-> ExtTargets,
     objs           |-> <<>>,
     slots          |-> <<>>,
     flagrefs       |-> <<>>,
     key            |-> <<WorklistBuildHi, WorklistBuildLo>>,
     newroots       |-> <<>>,
     params         |-> <<>>,
     reinit_list    |-> <<>>,
     reinit         |-> jl_finalize_serializer(<<>>)]

BaseSession ==
    [mod_array        |-> <<>>,
     main_build_id    |-> 1,
     matching         |-> MatchingOf([i \in Targets |-> TRUE]),
     has_mt           |-> [i \in Targets |-> TRUE],
     dispatch_changed |-> [m \in MethodInsts |-> FALSE],
     live             |-> [m \in MethodInsts |-> "none"],
     live_backedges   |-> [m \in MethodInsts |-> <<>>],
     cached           |-> {},
     reinit_throws    |-> {}]

CacheFile(header, modlist, p) == [header |-> header, modlist |-> modlist, p |-> p]

\* the headers of builds that differ from this one in one field: the format
\* version, the byte order, the pointer size, or one string, which is longer
\* by a character or shorter by its last
OtherBuilds ==
    {HeaderOf(JI_FORMAT_VERSION + 1, BOM, PtrSize, BuildStrings),
     HeaderOf(JI_FORMAT_VERSION, (BOM % 256) * 256 + BOM \div 256, PtrSize, BuildStrings),
     HeaderOf(JI_FORMAT_VERSION, BOM, PtrSize \div 2, BuildStrings)}
      \cup {HeaderOf(JI_FORMAT_VERSION, BOM, PtrSize, [BuildStrings EXCEPT ![k] = Append(@, 97)]) :
               k \in 1 .. Len(BuildStrings)}
      \cup {HeaderOf(JI_FORMAT_VERSION, BOM, PtrSize,
                     [BuildStrings EXCEPT ![k] = SubSeq(@, 1, Len(@) - 1)]) :
               k \in 1 .. Len(BuildStrings)}

\* headers: the one write_header produces, the same with one byte changed,
\* the same cut short, the empty file, and those of other builds
HeaderVariants ==
    {write_header, <<>>}
      \cup {[write_header EXCEPT ![i] = (@ + 1) % 256] : i \in 1 .. Len(write_header)}
      \cup {SubSeq(write_header, 1, Len(write_header) - 1)}
      \cup OtherBuilds

\* the code instance the session holds for LiveOf(m)
LiveCI(kind, world0) ==
    [min_world |-> 1,
     max_world |-> IF kind = "unlimited" THEN WorldInf ELSE world0 - 1,
     next      |-> NoCI,
     def       |-> 0]

\* a saving session: the call graph, the newly inferred method instances,
\* the (signature, caller) back-edges of the method tables, and the callees
\* for which jl_matching_methods answers jl_false
SaveSession(g, newly_inferred, missing, unmatched) ==
    [g |-> g, newly_inferred |-> newly_inferred, missing |-> missing, unmatched |-> unmatched]
\* a method instance of a method outside the worklist, with one relocatable
\* code instance and no callers
ExternalMI ==
    [in_worklist |-> FALSE, is_method |-> TRUE, precompiled |-> FALSE,
     relocatability |-> <<1>>, backedges |-> <<>>]
\* a session in which nothing calls anything and nothing was inferred
QuietSession == SaveSession([m \in SMIs |-> ExternalMI], <<>>, <<>>, {})

\* what jl_collect_backedges and queue_external_mis handed to the save
NoEdges == [n |-> 0, edges |-> <<>>, ext_targets |-> <<>>, edges_map |-> <<>>]

\* the static tables of a save as the process starts with them
NoSaveTables ==
    /\ edges_map = <<>>
    /\ external_mis = {}
    /\ reinit_list = <<>>
    /\ edges_out = NoEdges

\* no save has run and no stream has been read
NoSave ==
    /\ save_in = [roots |-> <<>>, bttag |-> FALSE, session |-> QuietSession]
    /\ save_pc = "done"
    /\ save_en = FALSE
    /\ jl_precompile_toplevel_module = NullPtr
    /\ backref_table = <<>>
    /\ backref_table_numel = 0
    /\ stream = <<>>
    /\ saved = [backref_table |-> <<>>, backref_table_numel |-> 0]
    /\ backref_list = <<>>
    /\ load_status = "none"
    /\ NoSaveTables

\* the code instances and method instances the session holds before a load
SessionCIs(session, world0) ==
    LET cached == {m \in MethodInsts : session.live[m] \notin {"none", "nocache"}}
    IN  IF cached = {} THEN <<>>
        ELSE [c \in {<<LiveOf(m), 1>> : m \in cached} |->
                [LiveCI(session.live[0 - c[1]], world0) EXCEPT !.def = c[1]]]
SessionMIs(session) ==
    LET lives == {m \in MethodInsts : session.live[m] # "none"}
    IN  IF lives = {} THEN <<>>
        ELSE [x \in {LiveOf(m) : m \in lives} |->
                [cache |-> IF session.live[0 - x] # "nocache" THEN <<x, 1>> ELSE NoCI,
                 backedges |-> session.live_backedges[0 - x]]]

\* the runtime with the load at position `at`
LoaderState(file, session, world0, gc0, fin0, at) ==
    LET lives == {m \in MethodInsts : session.live[m] # "none"}
        cached == {m \in lives : session.live[m] # "nocache"}
    IN  /\ f = file
        /\ rt = session
        /\ jl_world_counter = world0
        /\ gc_enabled = gc0
        /\ finalizers_inhibited = fin0
        /\ serializer_worklist = NullPtr
        /\ pc = at
        /\ en = FALSE
        /\ ret = NULL
        /\ tables = {}
        /\ new_code_instance_validate = {}
        /\ flagref_list = <<>>
        /\ ci = SessionCIs(session, world0)
        /\ mi = SessionMIs(session)
        /\ uniquing = <<>>
        /\ uniquing_table = <<>>
        /\ slots = <<>>
        /\ methods = <<>>
        /\ mi_valid = <<>>
        /\ specializations = {LiveOf(m) : m \in lives}
        /\ mt_defs = {}
        /\ valids = <<>>
        /\ callee_backedges = [i \in Targets |-> <<>>]
        /\ mt_backedges = <<>>
        /\ reinit_done = <<>>
        /\ passes = <<>>
        /\ entry = [world |-> world0, gc |-> gc0, fin |-> fin0]
        /\ queued_method_roots = <<>>
        /\ appended_roots = <<>>
        /\ type_cache = {LiveObj(<<"datatype", k>>) : k \in session.cached}
        /\ type_tags = <<>>
        /\ calls = 1

\* no cache file is written byte by byte and no back reference is on the wire
NoJi == [pc |-> "none"]
NoWire == [pc |-> "none"]
RuntimeState(file, session, world0, gc0, fin0, at) ==
    /\ LoaderState(file, session, world0, gc0, fin0, at)
    /\ ji = NoJi
    /\ wire = NoWire

\* the state in which _jl_restore_incremental(file, session.mod_array) is entered
StartLoad(file, session, world0, gc0, fin0) ==
    RuntimeState(file, session, world0, gc0, fin0, "start") /\ NoSave

\* files whose header does not verify
InitBadHeader ==
    \E h \in HeaderVariants \ {write_header}, w \in 1 .. MaxWorld0, g \in BOOLEAN, n \in {0, 1} :
        StartLoad(CacheFile(h, <<>>, BasePayload), BaseSession, w, g, n)

\* files whose manifest is checked against the loaded modules
InitModList ==
    \E list \in SeqsUpTo(FileMods, 2), loaded \in SeqsUpTo(ModVariants, 2),
       b \in {0, 1}, w \in 1 .. MaxWorld0, g \in BOOLEAN, n \in {0, 1} :
        StartLoad(CacheFile(write_header, list, BasePayload),
                  [BaseSession EXCEPT !.mod_array = loaded, !.main_build_id = b], w, g, n)

\* files that verify, with a small payload
InitPipeline ==
    \E objs \in {<<>>, <<"datatype">>, <<"method">>, <<"Module">>, <<"datatype", "method">>,
                  <<"mi", "method", "Module">>, <<"IdDict", "datatype", "MethodTable">>,
                  <<"imethod">>, <<"imethod", "method", "imethod">>},
       ext \in {<<>>, <<1>>},
       ok \in BOOLEAN, w \in 1 .. MaxWorld0, g \in BOOLEAN, n \in {0, 1} :
        StartLoad(CacheFile(write_header, <<>>,
                            ObjPayload([BasePayload EXCEPT
                                           !.extext_methods = ext,
                                           !.edges = <<[caller |-> 1, idxs |-> <<1>>]>>],
                                       objs, {}, 0, 0)),
                  [BaseSession EXCEPT !.matching = MatchingOf([i \in Targets |-> ok])],
                  w, g, n)

Init == InitBadHeader \/ InitModList \/ InitPipeline

Spec == Init /\ [][Next]_vars

(***************************************************************************)
(* Loads whose payload holds flagged references and reinit entries.        *)
(***************************************************************************)
\* how the types of a payload are nested: each has a type of the session as
\* its parameter, and with it no other type, the type decoded before it, or
\* the type decoded after it
Nestings == {"none", "prev", "next"}
TypeParams(objs, nest) ==
    LET types == {k \in 1 .. Len(objs) : objs[k] = "datatype"}
        Other(k) == IF nest = "prev" THEN {h \in types : h < k /\ \A g \in types : g < k => g <= h}
                    ELSE IF nest = "next"
                    THEN {h \in types : h > k /\ \A g \in types : g > k => g >= h}
                    ELSE {}
    IN  [k \in types |->
            <<SessionType>> \o (IF Other(k) = {} THEN <<>>
                                ELSE <<<<"datatype", CHOOSE h \in Other(k) : TRUE>>>>)]

\* loads with references to external types, singletons, methods and method
\* instances, of which the session holds those in cached
InitRecache ==
    \E objs \in ObjSeqs(FlaggedKinds), nest \in Nestings :
      \E p \in ObjPayloads(BasePayload, objs), cached \in SUBSET (1 .. Len(objs)) :
        /\ \A k \in DOMAIN TypeParams(objs, nest) :
              k \in cached =>
                 \A i \in DOMAIN TypeParams(objs, nest)[k] :
                    TypeParams(objs, nest)[k][i] = SessionType
                       \/ TypeParams(objs, nest)[k][i][2] \in cached
        /\ StartLoad(CacheFile(write_header, <<>>, [p EXCEPT !.params = TypeParams(objs, nest)]),
                     [BaseSession EXCEPT !.cached = cached], 1, TRUE, 0)

SpecRecache == InitRecache /\ [][Next]_vars

\* loads with objects to reinitialize, of which those in throws throw
InitReinit ==
    \E objs \in ObjSeqs(PlainKinds \cup {"method"}) :
      \E throws \in SUBSET {<<objs[k], k>> : k \in 1 .. Len(objs)} :
        StartLoad(CacheFile(write_header, <<>>, ObjPayload(BasePayload, objs, {}, 0, 0)),
                  [BaseSession EXCEPT !.reinit_throws = throws], 1, TRUE, 0)

SpecReinit == InitReinit /\ [][Next]_vars

(***************************************************************************)
(* Loads with a rich edge payload.                                         *)
(***************************************************************************)
\* code-instance chains: the validate flag of each entry
ChainSet == {s \in SeqsUpTo(BOOLEAN, MaxChain) : Len(s) >= 1}
\* the callee indices of one caller: all_callees is a set, so no index repeats
IdxLists == {s \in DistinctSeqs(Targets, NumTargets) : Len(s) >= 1}
\* edges: edges_map is keyed by caller, so no caller repeats
EdgeLists ==
    {[k \in 1 .. Len(cs) |-> [caller |-> cs[k], idxs |-> ix[k]]] :
        cs \in DistinctSeqs(MethodInsts, NumMI), ix \in [1 .. NumMI -> IdxLists]}
\* the signature callees, for which jl_method_table_for may answer nothing
SigTargets == {i \in Targets : TargetAt(i).callee = "sig"}
HasMtSet == {[i \in Targets |-> i \notin none] : none \in SUBSET SigTargets}

\* worklist-owned callers only: every chain, every edge list, every validity
InitCallers ==
    \E ch \in [MethodInsts -> ChainSet], es \in EdgeLists,
       ok \in [Targets -> BOOLEAN], hm \in HasMtSet :
        StartLoad(CacheFile(write_header, <<>>,
                            [BasePayload EXCEPT !.chain = ch, !.edges = es]),
                  [BaseSession EXCEPT !.matching = MatchingOf(ok), !.has_mt = hm],
                  MaxWorld0, TRUE, 0)

\* method instance 1 (and 2) queued as external specializations: the method
\* they dispatch to may have changed, and the session may hold the
\* specialization of 1 already
InitQueued ==
    \E list \in {<<1>>, <<NumMI, 1>>},
       chg \in [MethodInsts -> BOOLEAN],
       lv \in {"none", "nocache", "limited", "unlimited"},
       be \in {<<>>, <<NumMI>>},
       ch \in {<<TRUE>>, <<TRUE, FALSE>>},
       es \in {e \in EdgeLists : \A k \in 1 .. Len(e) : e[k].idxs = <<e[k].caller>>},
       ok \in [Targets -> BOOLEAN] :
        StartLoad(CacheFile(write_header, <<>>,
                            [BasePayload EXCEPT !.mi_list = list,
                                                !.chain = [m \in MethodInsts |-> ch],
                                                !.mi_backedges[1] = be,
                                                !.edges = es]),
                  [BaseSession EXCEPT !.matching = MatchingOf(ok),
                                      !.dispatch_changed = chg,
                                      !.live[1] = lv],
                  MaxWorld0, TRUE, 0)

\* queued method instances whose live specialization has callers of its own
InitMerge ==
    \E list \in {l \in DistinctSeqs(MethodInsts, NumMI) : l # <<>>},
       chg \in [MethodInsts -> BOOLEAN],
       lv \in {"none", "nocache", "limited", "unlimited"}, lv2 \in {"none", "limited"},
       be \in DistinctSeqs(MethodInsts, NumMI),
       ch \in {<<TRUE>>, <<TRUE, FALSE>>} :
      \E lbe \in DistinctSeqs({LiveOf(m) : m \in {x \in MethodInsts :
                                   (x = 1 /\ lv # "none") \/ (x = NumMI /\ lv2 # "none")}},
                              NumMI) :
        StartLoad(CacheFile(write_header, <<>>,
                            [BasePayload EXCEPT !.mi_list = list,
                                                !.chain = [m \in MethodInsts |-> ch],
                                                !.mi_backedges[1] = be]),
                  [BaseSession EXCEPT !.dispatch_changed = chg,
                                      !.live[NumMI] = lv2,
                                      !.live[1] = lv,
                                      !.live_backedges[1] = lbe],
                  MaxWorld0, TRUE, 0)

InitRejected ==
    \/ StartLoad(CacheFile(<<>>, <<>>, BasePayload), BaseSession, MaxWorld0, TRUE, 0)
    \/ StartLoad(CacheFile(write_header, <<ModA>>, BasePayload), BaseSession, MaxWorld0, TRUE, 0)

InitEdges == InitCallers \/ InitQueued \/ InitRejected

SpecEdges == InitEdges /\ [][Next]_vars
SpecMerge == (InitMerge \/ InitRejected) /\ [][Next]_vars

(***************************************************************************)
(* Loads whose first callee has any cached list and any current answer.    *)
(***************************************************************************)
MatchLists == DistinctSeqs(Methods, NumMethods)

InitMatching ==
    \E exp \in MatchLists, now \in MatchLists \cup {JlFalse},
       es \in {<<>>, <<[caller |-> 1, idxs |-> <<1>>]>>} :
        StartLoad(CacheFile(write_header, <<>>,
                            [BasePayload EXCEPT !.ext_targets[1].expected = exp, !.edges = es]),
                  [BaseSession EXCEPT !.matching[1] = now],
                  MaxWorld0, TRUE, 0)

InitVerify == InitMatching \/ InitRejected

SpecVerify == InitVerify /\ [][Next]_vars

(***************************************************************************)
(* The serializer.  A value of the saving session is a record               *)
(* [kind, id, attr, kids]; the pair (kind, id) is its identity (its          *)
(* address), a token of the stream is [tag, a].                             *)
(***************************************************************************)
\* pointer fields of the mutable structs of the scenarios
NumFields == 2
\* most values directly in the worklist
MaxItems == 2
\* identities of the back-edge arrays of the session start behind this one
SessionArrayBase == 50

Val(kind, id, attr, kids) == [kind |-> kind, id |-> id, attr |-> attr, kids |-> kids]
NullVal == Val("NULL", 0, "", <<>>)
Key(v) == <<v.kind, v.id>>
Tok(tag, a) == [tag |-> tag, a |-> a]

\* the types and constants of ser_tag, which are written as one byte; the
\* struct types of the scenarios are among them
SerTags == <<"Array", "TypeName", "Mutable", "Ptr", "Any", "nothing", "emptysvec", "Foreign",
             "IdDict", "root_task">>
ser_tag(name) == CHOOSE t \in 1 .. Len(SerTags) : SerTags[t] = name
deser_tag(t) == SerTags[t]
Tagged(name) == Val("tagged", ser_tag(name), "", <<>>)
\* jl_box_int64(0) to jl_box_int64(20) are in ser_tag as well
LastTaggedInt == 20

\* the fields of a code instance that jl_serialize_code_instance reads
CodeInstFields(attr) ==
    [max_world      |-> IF attr \in {"stale", "stale_partial_opaque"} THEN 1 ELSE WorldInf,
     min_world      |-> 1,
     relocatability |-> IF attr = "unrelocatable" THEN 0 ELSE 1,
     rettype_const  |-> IF attr \in {"partial_opaque", "stale_partial_opaque"}
                        THEN "PartialOpaque" ELSE "NULL"]

\* the build id of the last module of the worklist, 0 of an empty one
jl_worklist_key(worklist) ==
    IF Len(worklist.kids) > 0 THEN <<WorklistBuildHi, WorklistBuildLo>> ELSE <<0, 0>>

\* the serializer's state: s->s, backref_table, backref_table_numel, and the
\* message of the error that unwound it, if any
Ser(out, table, numel, err) ==
    [out |-> out, backref_table |-> table, backref_table_numel |-> numel, err |-> err,
     reinit_list |-> <<>>, key |-> <<0, 0>>, loaded_modules_array |-> <<>>,
     g |-> <<>>, external_mis |-> {}, backedges |-> <<>>]
Emit(st, tok) == [st EXCEPT !.out = Append(@, tok)]
\* a variant that returns to the caller
jl_errorReturns(st, msg) == st
jl_error(st, msg) == [st EXCEPT !.err = msg]

\* what jl_serialize_datatype asks of a type: module_in_worklist of the module
\* of its name, whether it is the body of its name's wrapper, the test for
\* free type variables, type_recursively_external and type_in_worklist
DatatypeAttrs == {"external_primary", "freevars", "internal_freevars", "internal_primary",
                  "internal", "recursively_external", "worklist_params", "external"}
DatatypeProps(attr) ==
    [internal             |-> attr \in {"internal_primary", "internal", "internal_freevars"},
     primary              |-> attr \in {"external_primary", "internal_primary"},
     freevars             |-> attr \in {"freevars", "internal_freevars"},
     recursively_external |-> attr = "recursively_external",
     in_worklist          |-> attr = "worklist_params"]
\* the sub-tag jl_serialize_datatype writes after TAG_DATATYPE
DatatypeTag(p) ==
    IF ~p.internal /\ p.primary THEN 6
    ELSE IF p.freevars THEN 0
    ELSE IF p.internal THEN (IF p.primary THEN 5 ELSE 10)
    ELSE IF p.recursively_external THEN 7
    ELSE IF p.in_worklist THEN 11
    ELSE 12

\* what the serializer asks of a method instance: jl_is_method(mi->def.method),
\* module_in_worklist(mi->def.method->module), and whether it is in external_mis
MIProps(attr) ==
    [is_method   |-> attr # "toplevel",
     in_worklist |-> attr = "worklist",
     queued      |-> attr = "external"]
\* a variant with the bytes of a method instance without a method and of an
\* external one that is not queued as the format description has them
MIInternalStated(p) ==
    IF ~p.is_method THEN 0
    ELSE IF p.in_worklist THEN 2
    ELSE IF p.queued THEN 3
    ELSE 1
\* the byte written after TAG_METHOD_INSTANCE
MIInternal(p) ==
    IF ~p.is_method THEN 1
    ELSE IF p.in_worklist THEN 2
    ELSE IF p.queued THEN 3
    ELSE 0

\* the same of the method instance m of the saving session
SessionProps(st, m) ==
    [is_method   |-> st.g[m].is_method,
     in_worklist |-> st.g[m].in_worklist,
     queued      |-> m \in st.external_mis]
\* the method instance m of the saving session as a value
SessionMI(m) == Val("MethodInstance", m, "session", <<>>)
\* mi->cache of the method instance m of the saving session
SessionChain(st, m) ==
    [k \in 1 .. Len(st.g[m].relocatability) |->
        Val("CodeInstance", m * (MaxChain + 1) + k,
            IF st.g[m].relocatability[k] # 0 THEN "valid" ELSE "unrelocatable", <<>>)]
\* the entries the loop over mi->backedges keeps
KeptBackedges(st, m) ==
    SelectSeq(st.backedges[m],
              LAMBDA b : SessionProps(st, b).in_worklist \/ SessionProps(st, b).queued)
\* a variant that leaves the array of the session as it is
TruncateNever(st, m, kept) == st
\* jl_array_del_end(backedges, l - ins) after the entries kept were moved to
\* the front of the array
TruncateBackedges(st, m, kept) == [st EXCEPT !.backedges[m] = kept]
\* the array that is serialized for the entries kept, NULL for none
BackedgeArray(m, kept) ==
    IF kept = <<>> THEN NullVal
    ELSE Val("Array", SessionArrayBase + m, "", [k \in 1 .. Len(kept) |-> SessionMI(kept[k])])

METHOD_INTERNAL == 1
METHOD_EXTERNAL_MT == 2
METHOD_HAS_NEW_ROOTS == 4

\* what the serializer asks of a module: module_in_worklist of it and of its
\* parent, and whether it is its own parent
ModuleAttrs == {"worklist_top", "worklist_sub", "worklist_under_external", "external_top",
                "external_sub"}
ModuleProps(attr) ==
    [in_worklist        |-> attr \in {"worklist_top", "worklist_sub", "worklist_under_external"},
     parent_in_worklist |-> attr \in {"worklist_top", "worklist_sub"},
     top                |-> attr \in {"worklist_top", "external_top"}]
\* the name of a module, and what write_mod_list writes of it
ModuleName(m) == Val("Symbol", 100 + m.id, "", <<>>)
ModInfo(m) == [name |-> "A", uuid |-> [hi |-> 1, lo |-> m.id], build_id |-> m.id,
               is_module |-> TRUE]
\* the entries write_mod_list writes for the array a
write_mod_list(a) ==
    LET ext == SelectSeq(a, LAMBDA m : ~ModuleProps(m.attr).in_worklist)
    IN  [i \in 1 .. Len(ext) |-> ModInfo(ext[i])]
\* the loop of jl_serialize_module over loaded_modules_array: the count j of
\* modules outside the worklist in front of m, or -1 when m is not found
ModuleRank(mods, m) ==
    LET at == {i \in 1 .. Len(mods) : Key(mods[i]) = Key(m)
                                       /\ ~ModuleProps(mods[i].attr).in_worklist}
        first == CHOOSE i \in at : \A h \in at : i <= h
    IN  IF at = {} THEN 0 - 1
        ELSE Cardinality({h \in 1 .. (first - 1) : ~ModuleProps(mods[h].attr).in_worklist})

\* a variant that asks for a parent in the worklist
ReinitOfInternalParent(v) ==
    IF v.kind = "Module"
    THEN IF ModuleProps(v.attr).in_worklist /\ ModuleProps(v.attr).parent_in_worklist
         THEN 2 ELSE 0
    ELSE ReinitHow(v.kind)
\* the action jl_serialize_generic enters on reinit_list for v, 0 for none
ReinitOf(v) ==
    IF v.kind = "Module"
    THEN IF ModuleProps(v.attr).in_worklist /\ ~ModuleProps(v.attr).parent_in_worklist
         THEN 2 ELSE 0
    ELSE ReinitHow(v.kind)

\* a 64-bit key is the pair of its high and its low 32 bits.  The roots of a
\* method m are m.kids[1], an array, and its run-length table of keys is
\* m.kids[2], whose blocks are (start, key) with start the index, from 0, of
\* the first root of the block; the roots in front of the first block have
\* key 0
MethodRoots(m) == IF Len(m.kids) < 1 \/ m.kids[1] = NullVal THEN <<>> ELSE m.kids[1].kids
MethodBlocks(m) ==
    IF Len(m.kids) < 2 \/ m.kids[2] = NullVal THEN <<>>
    ELSE [j \in 1 .. Len(m.kids[2].kids) |->
            [start |-> m.kids[2].kids[j].id,
             key   |-> <<m.kids[2].kids[j].kids[1].id, m.kids[2].kids[j].kids[2].id>>]]
\* rootiter.key at root i
RootKeyAt(blocks, i) ==
    LET before == {j \in 1 .. Len(blocks) : blocks[j].start <= i}
    IN  IF before = {} THEN <<0, 0>>
        ELSE blocks[CHOOSE j \in before : \A h \in before : h <= j].key
\* a variant that writes every root
KeyedRootsAll(roots, blocks, key, i) == SubSeq(roots, i, Len(roots))
\* the roots of m whose key is key, in root order
RECURSIVE KeyedRootsFrom(_, _, _, _)
KeyedRootsFrom(roots, blocks, key, i) ==
    IF i > Len(roots) THEN <<>>
    ELSE (IF RootKeyAt(blocks, i - 1) = key THEN <<roots[i]>> ELSE <<>>)
            \o KeyedRootsFrom(roots, blocks, key, i + 1)
\* the count of them
nroots_with_key(m, key) ==
    Cardinality({i \in 1 .. Len(MethodRoots(m)) : RootKeyAt(MethodBlocks(m), i - 1) = key})

\* the pointer fields of a method that follow its method table when it is
\* written in full: specializations, speckeyset, name, file, slot_syms, roots,
\* root_blocks, ccallable, source, unspecialized, generator, invokes,
\* recursion_relation
MethodFields(m) ==
    <<Tagged("emptysvec"), NullVal, Val("Symbol", 1, "", <<>>), Val("Symbol", 2, "", <<>>),
      NullVal, IF Len(m.kids) < 1 THEN NullVal ELSE m.kids[1], NullVal, NullVal, NullVal,
      NullVal, NullVal, NullVal, NullVal>>

\* type_in_worklist(dt)
type_in_worklist(p) == p.internal \/ p.in_worklist

\* a variant that leaves the stored value as it is
FlagBackrefNever(st, v) == st
\* *bp |= 1 on the stored value of v
FlagBackref(st, v) == [st EXCEPT !.backref_table[Key(v)] = (@ \div 2) * 2 + 1]

\* writes the values that need no position of their own and answers 1, or
\* takes the next position for v and answers 0
jl_serialize_generic(st, v) ==
    IF v = NullVal
    THEN [st |-> Emit(st, Tok("TAG_NULL", 0)), done |-> TRUE]
    ELSE IF v.kind = "tagged"
    THEN [st |-> Emit(st, Tok("ser_tag", v.id)), done |-> TRUE]
    ELSE IF v.kind = "Task" /\ v.attr = "root_task"
    THEN [st |-> Emit(st, Tok("ser_tag", ser_tag("root_task"))), done |-> TRUE]
    ELSE IF v.kind = "Int64" /\ v.id \in 0 .. LastTaggedInt
    THEN [st |-> Emit(st, Tok("ser_tag_int64", v.id)), done |-> TRUE]
    ELSE IF v.kind = "Core"
    THEN [st |-> Emit(st, Tok("TAG_CORE", 0)), done |-> TRUE]
    ELSE IF Key(v) \in DOMAIN st.backref_table
    THEN [st |-> Emit(st, Tok(IF st.backref_table[Key(v)] < 65536
                              THEN "TAG_SHORT_BACKREF" ELSE "TAG_BACKREF",
                              st.backref_table[Key(v)])),
          done |-> TRUE]
    ELSE [st |-> [st EXCEPT !.backref_table = (Key(v) :> (st.backref_table_numel * 2)) @@ @,
                            !.backref_table_numel = @ + 1,
                            !.reinit_list = IF ReinitOf(v) # 0
                                            THEN Append(@, [pos |-> st.backref_table_numel,
                                                            how |-> ReinitOf(v)])
                                            ELSE @],
          done |-> FALSE]

\* a live C pointer, which is written as C_NULL
IsLivePtr(e) == e # NullVal /\ e.kind = "Ptr"

RECURSIVE jl_serialize_value_(_, _, _)
RECURSIVE SerializeElems(_, _, _, _)
RECURSIVE jl_serialize_code_instance(_, _, _, _, _, _, _)
RECURSIVE SerializeRoots(_, _, _, _)
RECURSIVE SerializeBindings(_, _, _, _)

\* takes a position for the replacement, then writes TAG_CNULL and the type
jl_serialize_cnull(st, t, bttag) ==
    jl_serialize_value_(Emit([st EXCEPT !.backref_table_numel = @ + 1], Tok("TAG_CNULL", 0)),
                        t, bttag)

\* the pointer elements of an array or pointer fields of a struct, from the i-th
SerializeElems(st, es, i, bttag) ==
    IF i > Len(es) \/ st.err # "" THEN st
    ELSE SerializeElems(IF IsLivePtr(es[i])
                        THEN jl_serialize_cnull(st, Tagged("Ptr"), bttag)
                        ELSE jl_serialize_value_(st, es[i], bttag),
                        es, i + 1, bttag)

\* the bindings of the module m from the k-th: the key of the table, then
\* name, value, globalref, owner and ty of the binding, and its flags; the
\* k-th binding of m holds m.kids[k + 1]
SerializeBindings(st, m, k, bttag) ==
    IF k + 1 > Len(m.kids) \/ st.err # "" THEN st
    ELSE LET asname == Val("Symbol", 200 + k, "", <<>>)
             e  == m.kids[k + 1]
             b1 == jl_serialize_value_(st, asname, bttag)
             b2 == jl_serialize_value_(b1, asname, bttag)
             b3 == IF IsLivePtr(e) THEN jl_serialize_cnull(b2, Tagged("Ptr"), bttag)
                   ELSE jl_serialize_value_(b2, e, bttag)
             b4 == jl_serialize_value_(b3, NullVal, bttag)
             b5 == jl_serialize_value_(b4, Val("Module", m.id, m.attr, <<>>), bttag)
             b6 == jl_serialize_value_(b5, NullVal, bttag)
         IN  SerializeBindings(Emit(b6, Tok("binding_flags", 0)), m, k + 1, bttag)

\* jl_serialize_module
jl_serialize_module(st, m, bttag) ==
    LET p  == ModuleProps(m.attr)
        n1 == jl_serialize_value_(Emit(st, Tok("TAG_MODULE", m.id)), ModuleName(m), bttag)
        j  == ModuleRank(st.loaded_modules_array, m)
        parent == IF p.top THEN Val("Module", m.id, m.attr, <<>>) ELSE m.kids[1]
        w1 == jl_serialize_value_(Emit(n1, Tok("ref_only", 0)), parent, bttag)
        w2 == jl_serialize_value_(SerializeBindings(w1, m, 1, bttag), NullVal, bttag)
    IN  IF ~p.in_worklist
        THEN IF p.top
             THEN IF j >= 0 THEN Emit(Emit(n1, Tok("ref_only", 2)), Tok("index", j))
                  ELSE [Emit(n1, Tok("ref_only", 2))
                           EXCEPT !.err = "top level module not found in modules array"]
             ELSE jl_serialize_value_(Emit(n1, Tok("ref_only", 1)), parent, bttag)
        ELSE Emit(Emit(w2, Tok("usings", 0)), Tok("module_fields", m.id))

\* the chain of def from its k-th code instance
jl_serialize_code_instance(st, def, chain, k, skip_partial_opaque, internal, bttag) ==
    LET Reloc(j) == CodeInstFields(chain[j].attr).relocatability # 0
        first == IF internal > 2
                 THEN IF \E j \in k .. Len(chain) : Reloc(j)
                      THEN CHOOSE j \in k .. Len(chain) :
                              Reloc(j) /\ \A h \in k .. (j - 1) : ~Reloc(h)
                      ELSE Len(chain) + 1
                 ELSE k
        codeinst == IF first > Len(chain) THEN NullVal ELSE chain[first]
        g == jl_serialize_generic(st, codeinst)
        fld == CodeInstFields(codeinst.attr)
        validate == fld.max_world = WorldInf
        write_ret_type == validate \/ fld.min_world = 0
        s1 == Emit(g.st, Tok("TAG_CODE_INSTANCE", codeinst.id))
        s2 == jl_serialize_value_(s1, def, bttag)
        s3 == jl_serialize_value_(s2, NullVal, bttag)
        s4 == jl_serialize_value_(s3, NullVal, bttag)
        s5 == jl_serialize_value_(s4, Tagged("Any"), bttag)
        s6 == jl_serialize_value_(s5, Tagged("nothing"), bttag)
    IN  IF st.err # "" THEN st
        ELSE IF g.done THEN g.st
        ELSE IF write_ret_type /\ fld.rettype_const = "PartialOpaque"
        THEN IF skip_partial_opaque
             THEN jl_serialize_code_instance(g.st, def, chain, first + 1,
                                             skip_partial_opaque, internal, bttag)
             ELSE jl_error(g.st, "Cannot serialize CodeInstance with PartialOpaque rettype")
        ELSE jl_serialize_code_instance(s6, def, chain, first + 1,
                                        skip_partial_opaque, internal, bttag)

\* one value, with the positions it and the values below it take
jl_serialize_value_(st, v, bttag) ==
    LET g == jl_serialize_generic(st, v)
        s0 == g.st
        internal == MIInternal(IF v.attr = "session" THEN SessionProps(st, v.id)
                               ELSE MIProps(v.attr))
    IN  IF st.err # "" THEN st
        ELSE IF g.done THEN s0
        ELSE CASE v.kind = "Symbol" -> Emit(s0, Tok("TAG_SYMBOL", v.id))
               [] v.kind = "Array" ->
                    SerializeElems(
                        jl_serialize_value_(
                            jl_serialize_value_(Emit(s0, Tok("TAG_ARRAY1D", v.id)),
                                                Val("Int64", Len(v.kids), "", <<>>), bttag),
                            Tagged("Array"), bttag),
                        v.kids, 1, bttag)
               [] v.kind = "MethodInstance" /\ v.attr = "opaque_closure" ->
                    jl_error(s0, "unimplemented: serialization of MethodInstances for OpaqueClosure")
               [] v.kind = "MethodInstance" /\ v.attr # "opaque_closure" ->
                    LET m1 == Emit(s0, Tok("TAG_METHOD_INSTANCE", v.id))
                        m2 == Emit(m1, Tok("internal", internal))
                        mf == IF internal = 0 THEN FlagBackref(m2, v) ELSE m2
                        mu == IF internal = 1 THEN jl_serialize_value_(mf, NullVal, bttag)
                              ELSE mf
                        m3 == jl_serialize_value_(mu, Tagged("Any"), bttag)
                        m4 == jl_serialize_value_(m3, Tagged("nothing"), bttag)
                        m5 == jl_serialize_value_(m4, Tagged("emptysvec"), bttag)
                        kept == KeptBackedges(m5, v.id)
                        mb == IF v.attr = "session" THEN TruncateBackedges(m5, v.id, kept)
                              ELSE m5
                        m6 == jl_serialize_value_(
                                  mb, IF v.attr = "session" THEN BackedgeArray(v.id, kept)
                                      ELSE NullVal, bttag)
                        m7 == jl_serialize_value_(m6, NullVal, bttag)
                    IN  IF internal = 0 THEN m4
                        ELSE jl_serialize_code_instance(
                                 m7, Val("MethodInstance", v.id, v.attr, <<>>),
                                 IF v.attr = "session" THEN SessionChain(m7, v.id) ELSE v.kids,
                                 1, TRUE, internal, bttag)
               [] v.kind = "Method" ->
                    LET isint == v.attr \in {"internal", "opaque_closure"}
                        key == s0.key
                        nwithkey == IF isint THEN 0 ELSE nroots_with_key(v, key)
                        mode == (IF isint THEN METHOD_INTERNAL ELSE 0)
                                  + (IF nwithkey > 0 THEN METHOD_HAS_NEW_ROOTS ELSE 0)
                        f1 == Emit(s0, Tok("TAG_METHOD", v.id))
                        f2 == IF isint THEN f1 ELSE FlagBackref(f1, v)
                        f3 == jl_serialize_value_(f2, Tagged("Any"), bttag)
                        f4 == jl_serialize_value_(f3, Val("Core", 0, "", <<>>), bttag)
                        f5 == Emit(f4, Tok("serialization_mode", mode))
                        f6 == jl_serialize_value_(f5, NullVal, bttag)
                        f7 == Emit(Emit(Emit(f6, Tok("key_lo", key[2])), Tok("key_hi", key[1])),
                                   Tok("nwithkey", nwithkey))
                    IN  IF isint THEN SerializeRoots(f6, MethodFields(v), 1, bttag)
                        ELSE IF nwithkey > 0
                        THEN SerializeRoots(f7, KeyedRootsFrom(MethodRoots(v), MethodBlocks(v),
                                                                key, 1), 1, bttag)
                        ELSE f6
               [] v.kind = "DataType" ->
                    LET tag == DatatypeTag(DatatypeProps(v.attr))
                        d0 == IF tag = 12 THEN FlagBackref(s0, v) ELSE s0
                        d1 == Emit(Emit(d0, Tok("TAG_DATATYPE", v.id)), Tok("tag", tag))
                        has_instance == v.kids[1] # NullVal
                        d2 == Emit(d1, Tok("flags", IF has_instance THEN 2 ELSE 0))
                        d3 == IF has_instance THEN jl_serialize_value_(d2, v.kids[1], bttag)
                              ELSE d2
                    IN  IF tag \in {6, 7}
                        THEN SerializeRoots(d1, <<v.kids[2], v.kids[3]>>, 1, bttag)
                        ELSE SerializeRoots(d3, <<v.kids[2], v.kids[3], Tagged("Any"),
                                                  Tagged("emptysvec")>>, 1, bttag)
               [] v.kind = "Module" -> jl_serialize_module(s0, v, bttag)
               [] v.kind = "Singleton" ->
                    LET t  == v.kids[1]
                        g0 == IF ~type_in_worklist(DatatypeProps(t.attr))
                              THEN FlagBackref(s0, v) ELSE s0
                    IN  jl_serialize_value_(Emit(g0, Tok("TAG_SINGLETON", v.id)), t, bttag)
               \* a code instance that is not reached through mi->cache: it took its
               \* position in jl_serialize_generic above, and jl_serialize_code_instance
               \* looks it up again
               [] v.kind = "CodeInstance" ->
                    jl_serialize_code_instance(s0, Val("MethodInstance", 0, "worklist", <<>>),
                                               <<v>> \o v.kids, 1, FALSE, 2, bttag)
               [] v.kind = "Task" -> jl_error(s0, "Task cannot be serialized")
               [] v.kind = "OpaqueClosure" ->
                    jl_error(s0, "Live opaque closures cannot be serialized")
               [] v.kind = "Int64" -> Emit(s0, Tok("TAG_SHORTER_INT64", v.id))
               [] v.kind = "TypeName" /\ bttag -> Emit(s0, Tok("TAG_BITYPENAME", ser_tag("TypeName")))
               [] v.kind = "TypeName" /\ ~bttag ->
                    LET t1 == Emit(s0, Tok("TAG_SHORT_GENERAL", v.id))
                        t2 == jl_serialize_value_(t1, Tagged("TypeName"), bttag)
                        t3 == Emit(t2, Tok("internal", 0))
                        t4 == jl_serialize_value_(t3, Val("Core", 0, "", <<>>), bttag)
                    IN  jl_serialize_value_(t4, Val("Symbol", v.id, "", <<>>), bttag)
               [] v.kind = "Foreign" ->
                    jl_error(jl_serialize_value_(Emit(s0, Tok("TAG_SHORT_GENERAL", v.id)),
                                                 Tagged("Foreign"), bttag),
                             "Cannot serialize instances of foreign datatypes")
               [] OTHER ->
                    SerializeElems(
                        jl_serialize_value_(Emit(s0, Tok("TAG_SHORT_GENERAL", v.id)),
                                            Tagged(v.kind), bttag),
                        v.kids, 1, bttag)

\* the values roots one after another, from the i-th
SerializeRoots(st, roots, i, bttag) ==
    IF i > Len(roots) THEN st
    ELSE SerializeRoots(jl_serialize_value_(st, roots[i], bttag), roots, i + 1, bttag)

(***************************************************************************)
(* The decoder.  Its state is [i, backref_list, val, err, refs, loc,        *)
(* flagref_list, queued_method_roots]: the next token of the stream, the    *)
(* list, the identity of the value decoded last, what stopped it, the back  *)
(* references it has resolved (the word read, the entry bp found and the    *)
(* loc it was read for), the loc of the value to decode, and the two        *)
(* tables the decoder fills.                                                *)
(***************************************************************************)
\* a loc is the field fld of the object owner; NULL and HT_NOTFOUND are the
\* two values a caller passes when it has no field to name
NullLoc == [owner |-> <<"NULL", 0>>, fld |-> 0]
NotFoundLoc == [owner |-> <<"HT_NOTFOUND", 0>>, fld |-> 0]
Field(owner, k) == [owner |-> owner, fld |-> k]
At(d, loc) == [d EXCEPT !.loc = loc]

Dec(i, list, val, err) ==
    [i |-> i, backref_list |-> list, val |-> val, err |-> err, refs |-> <<>>,
     loc |-> NullLoc, flagref_list |-> <<>>, queued_method_roots |-> <<>>,
     loaded_modules_array |-> <<>>, modules |-> <<>>]
Push(d, key) == [d EXCEPT !.backref_list = Append(@, key), !.val = key]
\* arraylist_push(&flagref_list, loc); arraylist_push(&flagref_list, pos)
PushFlagref(d, loc, pos) == [d EXCEPT !.flagref_list = Append(@, [loc |-> loc, pos |-> pos])]

\* a variant that records a flagged back reference whatever loc is
BackrefFlagAnyLoc(d, word, loc) == PushFlagref(d, loc, 0 - 1)
\* what a back reference with the word read adds to flagref_list
BackrefFlag(d, word, loc) ==
    IF word % 2 = 1 /\ loc # NotFoundLoc
    THEN IF loc # NullLoc THEN PushFlagref(d, loc, 0 - 1) ELSE d
    ELSE d

RECURSIVE jl_deserialize_value(_, _)
RECURSIVE DeserializeN(_, _, _, _, _)
RECURSIVE DeserializeBindings(_, _, _, _)

\* n values one after another, into the fields k, k + 1, ... of owner, or
\* each with loc NULL when owner is the owner of NullLoc
DeserializeN(s, d, owner, k, n) ==
    IF n = 0 \/ d.err # "" THEN d
    ELSE DeserializeN(s, jl_deserialize_value(s, At(d, IF owner = NullLoc.owner THEN NullLoc
                                                         ELSE Field(owner, k))),
                      owner, k + 1, n - 1)

\* the loop of jl_deserialize_value_module over the bindings of m, from the
\* k-th: it ends at the NULL that is read for a key
DeserializeBindings(s, d, m, k) ==
    LET a1 == jl_deserialize_value(s, At(d, NullLoc))
        b1 == DeserializeN(s, a1, <<"Binding", 100 * m[2] + k>>, 1, 5)
    IN  IF d.err # "" THEN d
        ELSE IF a1.err # "" \/ a1.val = Key(NullVal) THEN a1
        ELSE DeserializeBindings(s, [b1 EXCEPT !.i = @ + 1], m, k + 1)

\* a variant that reads the index as a position of the list of all modules
ModuleRefNext(s, d, pos) ==
    [d EXCEPT !.i = @ + 1, !.backref_list[pos] = <<"LoadedModule", s[d.i].a + 2>>,
              !.val = <<"LoadedModule", s[d.i].a + 2>>]
\* jl_array_ptr_ref(s->loaded_modules_array, read_int32(s->s)), entered at pos
ModuleRef(s, d, pos) ==
    IF d.i > Len(s) THEN [d EXCEPT !.err = "assert(!ios_eof(s->s))"]
    ELSE IF s[d.i].a >= Len(d.loaded_modules_array)
    THEN [d EXCEPT !.err = "assert(i < jl_array_len(a))"]
    ELSE [d EXCEPT !.i = @ + 1, !.backref_list[pos] = <<"LoadedModule", s[d.i].a + 1>>,
                   !.val = <<"LoadedModule", s[d.i].a + 1>>]

jl_deserialize_value(s, d) ==
    IF d.err # "" THEN d
    ELSE IF d.i > Len(s) THEN [d EXCEPT !.err = "assert(!ios_eof(s->s))"]
    ELSE
    LET t  == s[d.i]
        d1 == [d EXCEPT !.i = @ + 1]
        pos == Len(d.backref_list) + 1
        loc == d.loc
    IN  CASE t.tag = "TAG_NULL" -> [d1 EXCEPT !.val = Key(NullVal)]
          [] t.tag = "ser_tag" -> [d1 EXCEPT !.val = <<"tagged", t.a>>]
          [] t.tag = "ser_tag_int64" -> [d1 EXCEPT !.val = <<"Int64", t.a>>]
          [] t.tag = "TAG_CORE" -> [d1 EXCEPT !.val = <<"Core", 0>>]
          [] t.tag \in {"TAG_BACKREF", "TAG_SHORT_BACKREF"} ->
               LET offs == t.a \div 2
               IN  IF offs < Len(d.backref_list)
                   THEN BackrefFlag([d1 EXCEPT !.val = d.backref_list[offs + 1],
                                               !.refs = Append(@, [offs |-> offs,
                                                                   bp |-> d.backref_list[offs + 1],
                                                                   word |-> t.a,
                                                                   loc |-> loc])],
                                    t.a, loc)
                   ELSE [d1 EXCEPT !.err = "assert(offs < backref_list.len)"]
          [] t.tag = "TAG_SYMBOL" -> Push(d1, <<"Symbol", t.a>>)
          [] t.tag = "TAG_SHORTER_INT64" -> Push(d1, <<"Int64", t.a>>)
          [] t.tag = "TAG_ARRAY1D" ->
               LET a1 == jl_deserialize_value(s, At(Push(d1, <<"Array", t.a>>), NullLoc))
                   a2 == jl_deserialize_value(s, At(a1, Field(<<"Array", t.a>>, 0)))
               IN  IF a1.err # "" THEN a1
                   ELSE IF a1.val[1] # "Int64" THEN [a1 EXCEPT !.err = "jl_unbox_long of another object"]
                   ELSE [DeserializeN(s, a2, <<"Array", t.a>>, 1, a1.val[2])
                            EXCEPT !.val = <<"Array", t.a>>]
          [] t.tag = "TAG_METHOD_INSTANCE" ->
               LET v  == <<"MethodInstance", t.a>>
                   m1 == Push(d1, v)
                   internal == IF m1.i > Len(s) THEN 0 ELSE s[m1.i].a
                   m2 == [m1 EXCEPT !.i = @ + 1]
                   m3 == DeserializeN(s, m2, v, 1, IF internal = 1 THEN 3 ELSE 2)
               IN  IF internal = 0
                   THEN IF m3.err # "" THEN m3
                        ELSE IF loc \in {NullLoc, NotFoundLoc}
                        THEN [m3 EXCEPT !.err = "assert(loc != NULL && loc != HT_NOTFOUND)"]
                        ELSE [PushFlagref(m3, loc, pos - 1) EXCEPT !.val = v]
                   ELSE [DeserializeN(s, m3, v, 4, 4) EXCEPT !.val = v]
          [] t.tag = "TAG_METHOD" ->
               LET v  == <<"Method", t.a>>
                   f1 == DeserializeN(s, Push(d1, v), v, 1, 2)
                   mode == IF f1.i > Len(s) THEN 0 ELSE s[f1.i].a
                   f2 == [f1 EXCEPT !.i = @ + 1]
                   f3 == IF (mode \div METHOD_EXTERNAL_MT) % 2 = 1
                         THEN DeserializeN(s, f2, NullLoc.owner, 0, 2)
                         ELSE DeserializeN(s, f2, v, 3, 1)
                   f4 == PushFlagref(f3, loc, pos - 1)
                   lo == s[f4.i].a
                   hi == s[f4.i + 1].a
                   nnew == s[f4.i + 2].a
                   f5 == DeserializeN(s, [f4 EXCEPT !.i = @ + 3], <<"newroots", t.a>>, 1, nnew)
                   newroots == [j \in 1 .. nnew |->
                                  DeserializeN(s, [f4 EXCEPT !.i = @ + 3], <<"newroots", t.a>>,
                                               1, j).val]
               IN  IF f3.err # "" THEN f3
                   ELSE IF mode % 2 = METHOD_INTERNAL
                   THEN [DeserializeN(s, f3, v, 4, 13) EXCEPT !.val = v]
                   ELSE IF loc \in {NullLoc, NotFoundLoc}
                   THEN [f3 EXCEPT !.err = "assert(loc != NULL && loc != HT_NOTFOUND)"]
                   ELSE IF (mode \div METHOD_HAS_NEW_ROOTS) % 2 = 0
                   THEN [f4 EXCEPT !.val = v]
                   ELSE IF f4.i + 2 > Len(s) THEN [f4 EXCEPT !.err = "assert(!ios_eof(s->s))"]
                   ELSE IF f5.err # "" THEN f5
                   ELSE [f5 EXCEPT !.val = v,
                                   !.queued_method_roots =
                                       (v :> [lo |-> lo, hi |-> hi, newroots |-> newroots]) @@ @]
          [] t.tag = "TAG_DATATYPE" ->
               LET v  == <<"DataType", t.a>>
                   t0 == Push(d1, <<"NULL", 0>>)
                   tag == IF t0.i > Len(s) THEN 0 - 1 ELSE s[t0.i].a
                   t1 == [t0 EXCEPT !.i = @ + 1]
                   \* tag 6 or 7: the name and the parameters, then jl_apply_type
                   e1 == [DeserializeN(s, t1, NullLoc.owner, 0, 2)
                             EXCEPT !.backref_list[pos] = v, !.val = v]
                   c1 == [t1 EXCEPT !.backref_list[pos] = v]
                   has_instance == IF c1.i > Len(s) THEN FALSE ELSE (s[c1.i].a \div 2) % 2 = 1
                   c2 == [c1 EXCEPT !.i = @ + 1]
                   c3 == IF tag \in {10, 11, 12}
                         THEN PushFlagref(c2, IF loc = NotFoundLoc THEN NullLoc ELSE loc, pos - 1)
                         ELSE c2
                   c4 == IF has_instance THEN jl_deserialize_value(s, At(c3, Field(v, 0)))
                         ELSE c3
               IN  IF tag \in {6, 7} THEN e1
                   ELSE IF tag \notin {0, 5, 10, 11, 12}
                   THEN [t1 EXCEPT !.err = "corrupt deserialization state"]
                   ELSE [DeserializeN(s, c4, v, 1, 4) EXCEPT !.val = v]
          [] t.tag = "TAG_MODULE" ->
               LET v  == <<"Module", t.a>>
                   n1 == jl_deserialize_value(s, At(Push(d1, <<"NULL", 0>>), NullLoc))
                   ref_only == IF n1.i > Len(s) THEN 0 ELSE s[n1.i].a
                   n2 == [n1 EXCEPT !.i = @ + 1]
                   r1 == jl_deserialize_value(s, At(n2, NullLoc))
                   w1 == jl_deserialize_value(s, At([n2 EXCEPT !.backref_list[pos] = v],
                                                    Field(v, 0)))
                   w2 == DeserializeBindings(s, w1, v, 1)
                   nusings == IF w2.i > Len(s) THEN 0 ELSE s[w2.i].a
                   w3 == DeserializeN(s, [w2 EXCEPT !.i = @ + 1], <<"usings", t.a>>, 1, nusings)
               IN  IF n1.err # "" THEN n1
                   ELSE IF ref_only = 1
                   THEN IF r1.err # "" THEN r1
                        ELSE [r1 EXCEPT !.backref_list[pos] = v, !.val = v]
                   ELSE IF ref_only # 0 THEN ModuleRef(s, n2, pos)
                   ELSE IF w3.err # "" THEN w3
                   ELSE [w3 EXCEPT !.i = @ + 1, !.val = v,
                                   !.modules = (v :> [name |-> n1.val, parent |-> w1.val]) @@ @]
          [] t.tag = "TAG_SINGLETON" ->
               LET v  == <<"Singleton", t.a>>
                   g0 == Push(d1, v)
                   g1 == IF loc # NullLoc THEN PushFlagref(g0, loc, pos - 1) ELSE g0
               IN  IF loc = NotFoundLoc THEN [g0 EXCEPT !.err = "assert(loc != HT_NOTFOUND)"]
                   ELSE [jl_deserialize_value(s, At(g1, NotFoundLoc)) EXCEPT !.val = v]
          [] t.tag = "TAG_CODE_INSTANCE" ->
               [DeserializeN(s, Push(d1, <<"CodeInstance", t.a>>), <<"CodeInstance", t.a>>, 1, 6)
                   EXCEPT !.val = <<"CodeInstance", t.a>>]
          [] t.tag = "TAG_CNULL" ->
               [jl_deserialize_value(s, At(Push(d1, <<"Ptr", 0>>), Field(<<"Ptr", pos>>, 0)))
                   EXCEPT !.val = <<"Ptr", 0>>]
          [] t.tag = "TAG_BITYPENAME" -> [d1 EXCEPT !.val = <<deser_tag(t.a), 0>>]
          [] t.tag = "TAG_SHORT_GENERAL" ->
               LET g1 == jl_deserialize_value(s, At(Push(d1, <<"0x50", t.a>>),
                                                    Field(<<"0x50", pos>>, 0)))
                   dt == IF g1.val[1] = "tagged" THEN deser_tag(g1.val[2]) ELSE "corrupt"
                   v  == <<dt, t.a>>
                   g2 == [g1 EXCEPT !.backref_list[pos] = v]
               IN  IF g1.err # "" THEN g1
                   ELSE IF dt = "corrupt" THEN [g1 EXCEPT !.err = "jl_set_typeof of another object"]
                   ELSE IF dt = "TypeName"
                   THEN [DeserializeN(s, [g2 EXCEPT !.i = @ + 1], NullLoc.owner, 0, 2)
                            EXCEPT !.val = v]
                   ELSE [DeserializeN(s, g2, v, 1, NumFields) EXCEPT !.val = v]
          [] OTHER -> [d1 EXCEPT !.err = "unknown tag"]

(***************************************************************************)
(* jl_save_incremental, and the stream read back.                           *)
(***************************************************************************)
\* the tables jl_save_incremental creates
PerSaveTables == {"reinit_list", "edges_map", "backref_table", "external_mis"}

\* jl_array_ptr_ref(worklist, jl_array_len(worklist)-1): the last module of
\* the worklist.  Of an empty worklist it is element (size_t)-1: the bounds
\* assertion of jl_array_ptr_ref stops a build with assertions, any other
\* build reads the word in front of the array's data
LastOfWorklist(worklist) ==
    IF Len(worklist) > 0 THEN {[ok |-> TRUE, ptr |-> Ptr(Len(worklist))]}
    ELSE {[ok |-> FALSE, ptr |-> NullPtr], [ok |-> TRUE, ptr |-> Ptr(0 - 1)]}

\* a variant that does not set backref_table_numel
SaveBeginKeepCount ==
    /\ save_pc = "start"
    /\ jl_precompile_toplevel_module = NullPtr
    /\ \E top \in LastOfWorklist(save_in.roots[1].kids) :
          /\ jl_precompile_toplevel_module' = top.ptr
          /\ serializer_worklist' = IF top.ok THEN Ptr(save_in.roots[1].id) ELSE serializer_worklist
          /\ tables' = IF top.ok THEN tables \cup PerSaveTables ELSE tables
          /\ reinit_list' = IF top.ok THEN <<>> ELSE reinit_list
          /\ edges_map' = IF top.ok THEN <<>> ELSE edges_map
          /\ external_mis' = IF top.ok THEN {} ELSE external_mis
          /\ backref_table' = IF top.ok THEN (MainModule :> 0) ELSE backref_table
          /\ backref_table_numel' = backref_table_numel
          /\ save_en' = IF top.ok THEN gc_enabled ELSE save_en
          /\ gc_enabled' = IF top.ok THEN FALSE ELSE gc_enabled
          /\ save_pc' = IF top.ok THEN "queue_external_mis" ELSE "assert(i < jl_array_len(a))"
    /\ UNCHANGED <<ji, wire, type_cache, type_tags, appended_roots, f, rt, jl_world_counter, finalizers_inhibited, pc, en, ret,
                   new_code_instance_validate, flagref_list, ci, mi, uniquing, uniquing_table,
                   slots, methods, mi_valid, specializations, mt_defs, valids, callee_backedges,
                   mt_backedges, reinit_done, passes, entry, queued_method_roots, calls>>
    /\ UNCHANGED <<save_in, stream, saved, backref_list, load_status, edges_out>>

\* the file is opened, the header and the lists are written, the tables are
\* created, the main module is entered at position 0 and the GC is switched
\* off
SaveBegin ==
    /\ save_pc = "start"
    /\ jl_precompile_toplevel_module = NullPtr
    /\ \E top \in LastOfWorklist(save_in.roots[1].kids) :
          /\ jl_precompile_toplevel_module' = top.ptr
          /\ serializer_worklist' = IF top.ok THEN Ptr(save_in.roots[1].id) ELSE serializer_worklist
          /\ tables' = IF top.ok THEN tables \cup PerSaveTables ELSE tables
          /\ reinit_list' = IF top.ok THEN <<>> ELSE reinit_list
          /\ edges_map' = IF top.ok THEN <<>> ELSE edges_map
          /\ external_mis' = IF top.ok THEN {} ELSE external_mis
          /\ backref_table' = IF top.ok THEN (MainModule :> 0) ELSE backref_table
          /\ backref_table_numel' = IF top.ok THEN 1 ELSE backref_table_numel
          /\ save_en' = IF top.ok THEN gc_enabled ELSE save_en
          /\ gc_enabled' = IF top.ok THEN FALSE ELSE gc_enabled
          /\ save_pc' = IF top.ok THEN "queue_external_mis" ELSE "assert(i < jl_array_len(a))"
    /\ UNCHANGED <<ji, wire, type_cache, type_tags, appended_roots, f, rt, jl_world_counter, finalizers_inhibited, pc, en, ret,
                   new_code_instance_validate, flagref_list, ci, mi, uniquing, uniquing_table,
                   slots, methods, mi_valid, specializations, mt_defs, valids, callee_backedges,
                   mt_backedges, reinit_done, passes, entry, queued_method_roots, calls>>
    /\ UNCHANGED <<save_in, stream, saved, backref_list, load_status, edges_out>>

\* queue_external_mis(newly_inferred), the collection of the forward-edge map
\* from the method tables, and jl_collect_backedges, which lists the table in
\* an order of its own
SaveCollect ==
    /\ save_pc = "queue_external_mis"
    /\ LET ss == save_in.session
           q  == queue_external_mis(ss.g, ss.newly_inferred, external_mis)
           em == BuildEdgesMap(edges_map, ss.g, q.external_mis, ss.missing)
       IN  \E order \in KeyOrders(DOMAIN em) :
              LET r == jl_collect_backedges(order, 1, em, ss.g, q.external_mis, ss.unmatched,
                                            <<>>, <<>>)
              IN  /\ external_mis' = q.external_mis
                  /\ edges_map' = r.edges_map
                  /\ edges_out' = [n |-> q.n, edges |-> r.s, ext_targets |-> r.t,
                                   edges_map |-> em]
    /\ save_pc' = "jl_serialize_value"
    /\ UNCHANGED loadvars
    /\ UNCHANGED <<save_in, save_en, jl_precompile_toplevel_module, backref_table,
                   backref_table_numel, stream, saved, backref_list, load_status, reinit_list>>

\* jl_get_loaded_modules() of the saving session
SaveMods == IF "mod_array" \in DOMAIN save_in THEN save_in.mod_array ELSE <<>>
\* mi->backedges of the method instances of the saving session, as they are now
SaveLive == IF "live" \in DOMAIN save_in THEN save_in.live ELSE <<>>

\* worklist, extext_methods, edges and ext_targets are serialized; a jl_error
\* below unwinds out of jl_save_incremental
SaveSerialize ==
    /\ save_pc = "jl_serialize_value"
    /\ LET st == SerializeRoots([Ser(stream, backref_table, backref_table_numel, "")
                                    EXCEPT !.reinit_list = reinit_list,
                                           !.loaded_modules_array = SaveMods,
                                           !.key = jl_worklist_key(save_in.roots[1]),
                                           !.g = save_in.session.g,
                                           !.external_mis = external_mis,
                                           !.backedges = SaveLive],
                                save_in.roots, 1, save_in.bttag)
       IN  /\ stream' = st.out
           /\ save_in' = IF "live" \in DOMAIN save_in
                         THEN [save_in EXCEPT !.live = st.backedges] ELSE save_in
           /\ backref_table' = st.backref_table
           /\ backref_table_numel' = st.backref_table_numel
           /\ reinit_list' = st.reinit_list
           /\ save_pc' = IF st.err # "" THEN "thrown" ELSE "jl_finalize_serializer"
    /\ UNCHANGED loadvars
    /\ UNCHANGED <<save_en, jl_precompile_toplevel_module, saved, backref_list,
                   load_status, edges_map, external_mis, edges_out>>

\* what jl_finalize_serializer appends to the stream: jl_module_init_order,
\* which is NULL in the scenarios, and the words of reinit_list
Trailer(list) ==
    <<Tok("TAG_NULL", 0)>>
       \o [k \in 1 .. Len(jl_finalize_serializer(list)) |->
              Tok("int32", jl_finalize_serializer(list)[k])]

\* jl_finalize_serializer, then the worklist is cleared, the GC restored, the
\* tables reset, the source text written and the file closed
SaveFinish ==
    /\ save_pc = "jl_finalize_serializer"
    /\ stream' = stream \o Trailer(reinit_list)
    /\ serializer_worklist' = NullPtr
    /\ gc_enabled' = save_en
    /\ saved' = [backref_table |-> backref_table, backref_table_numel |-> backref_table_numel]
    /\ tables' = tables \ PerSaveTables
    /\ backref_table' = <<>>
    /\ edges_map' = <<>>
    /\ external_mis' = {}
    /\ reinit_list' = <<>>
    /\ jl_precompile_toplevel_module' = NullPtr
    /\ save_pc' = "saved"
    /\ UNCHANGED <<ji, wire, type_cache, type_tags, appended_roots, f, rt, jl_world_counter, finalizers_inhibited, pc, en, ret,
                   new_code_instance_validate, flagref_list, ci, mi, uniquing, uniquing_table,
                   slots, methods, mi_valid, specializations, mt_defs, valids, callee_backedges,
                   mt_backedges, reinit_done, passes, entry, queued_method_roots, calls>>
    /\ UNCHANGED <<save_in, save_en, backref_table_numel, backref_list, load_status,
                   edges_out>>

\* a load decodes the values of the stream in the order they were written; a
\* back reference past the end of backref_list fails the assertion of a debug
\* build and reads past the list in a release build
DecodedStream ==
    DeserializeN(stream, [Dec(1, <<MainModule>>, Key(NullVal), "")
                             EXCEPT !.loaded_modules_array = rt.mod_array],
                 <<"restored", 0>>, 1, Len(save_in.roots))

DecodeStream ==
    /\ save_pc = "saved"
    /\ load_status = "none"
    /\ LET d == DecodedStream
           verified == read_verify_mod_list(write_mod_list(SaveMods), rt.mod_array,
                                            rt.main_build_id) = NULL
       IN  /\ backref_list' = IF verified THEN d.backref_list ELSE backref_list
           /\ flagref_list' = IF verified THEN d.flagref_list ELSE flagref_list
           /\ queued_method_roots' = IF verified THEN d.queued_method_roots
                                     ELSE queued_method_roots
           /\ \E outcome \in (IF ~verified THEN {"rejected"}
                                ELSE IF d.err = "" THEN {"decoded"}
                                ELSE {"aborted", "undefined"}) :
                 load_status' = outcome
    /\ UNCHANGED <<ji, wire, type_cache, type_tags, appended_roots, f, rt, jl_world_counter, gc_enabled, finalizers_inhibited,
                   serializer_worklist, pc, en, ret, tables, new_code_instance_validate, ci, mi,
                   uniquing, uniquing_table, slots, methods, mi_valid, specializations, mt_defs,
                   valids, callee_backedges, mt_backedges, reinit_done, passes, entry, calls>>
    /\ UNCHANGED <<save_in, save_pc, save_en, jl_precompile_toplevel_module, backref_table,
                   backref_table_numel, stream, saved, edges_map, external_mis, reinit_list,
                   edges_out>>

\* case 2 of jl_reinit_item for the module v: existing is what the binding
\* of its parent under its name holds in the running session, incremental
\* whether the session generates incremental output
ReinsertModule(v, mod, existing, incremental) ==
    IF mod.parent = v THEN [throws |-> FALSE, bound |-> <<>>]
    ELSE IF existing = "unwritable" THEN [throws |-> TRUE, bound |-> <<>>]
    ELSE IF existing = "value" THEN [throws |-> TRUE, bound |-> <<>>]
    ELSE IF existing = "module" /\ incremental THEN [throws |-> TRUE, bound |-> <<>>]
    ELSE [throws |-> FALSE, bound |-> <<[parent |-> mod.parent, name |-> mod.name, value |-> v]>>]

\* the modules of list whose reinsertion throws in the session
ReinsertThrows(list, modules, session) ==
    {v \in Range(list) :
        v \in DOMAIN modules
          /\ ReinsertModule(v, modules[v], session.existing[v[2]], session.incremental).throws}

\* jl_finalize_deserializer on the stream of a save: the module init order is
\* read, then the entries of the reinit list are replayed
ReplayReinit ==
    /\ load_status = "decoded"
    /\ LET d0 == DecodedStream
           d1 == jl_deserialize_value(stream, At(d0, NullLoc))
           words == [k \in 1 .. (Len(stream) - d1.i + 1) |-> stream[d1.i + k - 1].a]
           done == jl_finalize_deserializer(words, 1, backref_list,
                                            ReinsertThrows(backref_list, d0.modules, rt))
       IN  reinit_done' =
              [i \in 1 .. Len(done) |->
                  [bound |-> IF done[i].how = 2 /\ done[i].outcome = "done"
                             THEN ReinsertModule(done[i].v, d0.modules[done[i].v],
                                                 rt.existing[done[i].v[2]],
                                                 rt.incremental).bound
                             ELSE <<>>] @@ done[i]]
    /\ load_status' = "finalized"
    /\ UNCHANGED <<ji, wire, type_cache, type_tags, appended_roots, f, rt, jl_world_counter, gc_enabled, finalizers_inhibited,
                   serializer_worklist, pc, en, ret, tables, new_code_instance_validate,
                   flagref_list, ci, mi, uniquing, uniquing_table, slots, methods, mi_valid,
                   specializations, mt_defs, valids, callee_backedges, mt_backedges, passes,
                   entry, queued_method_roots, calls>>
    /\ UNCHANGED <<save_in, save_pc, save_en, jl_precompile_toplevel_module, backref_table,
                   backref_table_numel, stream, saved, edges_map, external_mis, reinit_list,
                   edges_out, backref_list>>

NextCodec == SaveBegin \/ SaveCollect \/ SaveSerialize \/ SaveFinish \/ DecodeStream
NextModules == NextCodec \/ ReplayReinit

(***************************************************************************)
(* The values a save is given.                                              *)
(***************************************************************************)
CodeInstAttrs == {"valid", "partial_opaque", "stale_partial_opaque", "unrelocatable"}
\* what a pointer field of a mutable struct holds
FieldVals == {NullVal, Val("Ptr", 0, "", <<>>), Val("Symbol", 1, "", <<>>),
              Val("TypeName", 2, "", <<>>)}
\* the shapes of the values a worklist binding holds
ItemShapes ==
    {Val("MethodInstance", 0, a, [k \in 1 .. Len(ch) |-> Val("CodeInstance", k, ch[k], <<>>)]) :
        a \in {"worklist", "external"}, ch \in SeqsUpTo(CodeInstAttrs, MaxChain)}
      \cup {Val("Mutable", 0, "", fs) : fs \in [1 .. NumFields -> FieldVals]}
      \cup {Val("IdDict", 0, "", [k \in 1 .. NumFields |-> NullVal])}
      \cup {Val(k, 0, "", <<>>) : k \in {"Task", "OpaqueClosure", "Foreign"}}
      \cup {Val("Task", 0, "root_task", <<>>), Val("MethodInstance", 0, "opaque_closure", <<>>)}
      \cup {Val("CodeInstance", 0, a, <<>>) : a \in {"valid", "partial_opaque"}}
      \cup {Val("Mutable", 0, "", [k \in 1 .. NumFields |-> IF k = 1 THEN x ELSE NullVal]) :
               x \in {Val("Task", 9, "", <<>>), Val("Task", 0, "root_task", <<>>),
                      Val("OpaqueClosure", 9, "", <<>>), Val("Foreign", 9, "", <<>>)}}
      \cup {Val("Symbol", 1, "", <<>>), Val("Symbol", 2, "", <<>>),
            Val("TypeName", 2, "", <<>>)}

\* the i-th value of the worklist: objects that are not interned get an
\* identity of their own
Place(v, i) ==
    IF v.kind \in {"Symbol", "TypeName"} THEN v
    ELSE IF v.kind = "MethodInstance"
    THEN [v EXCEPT !.id = i,
                   !.kids = [k \in 1 .. Len(v.kids) |->
                               [v.kids[k] EXCEPT !.id = i * (MaxChain + 1) + k]]]
    ELSE [v EXCEPT !.id = i]

SaveRoots(items) ==
    <<Val("Array", 1, "", [i \in 1 .. Len(items) |-> Place(items[i], i)]),
      Val("Array", 2, "", <<>>), Val("Array", 3, "", <<>>), Val("Array", 4, "", <<>>)>>

\* the state in which jl_save_incremental(fname, worklist) is entered
InitSave ==
    \E items \in SeqsUpTo(ItemShapes, MaxItems), bt \in BOOLEAN, g \in BOOLEAN, n \in {0, 1} :
        /\ RuntimeState(CacheFile(write_header, <<>>, BasePayload), BaseSession,
                        MaxWorld0, g, n, "done")
        /\ save_in = [roots |-> SaveRoots(items), bttag |-> bt, session |-> QuietSession]
        /\ save_pc = "start"
        /\ save_en = FALSE
        /\ jl_precompile_toplevel_module = NullPtr
        /\ backref_table = <<>>
        /\ backref_table_numel = 0
        /\ stream = <<>>
        /\ saved = [backref_table |-> <<>>, backref_table_numel |-> 0]
        /\ backref_list = <<>>
        /\ load_status = "none"
        /\ NoSaveTables

SpecCodec == InitSave /\ [][NextCodec]_vars

\* the state in which jl_save_incremental is entered with the input in
StartSave(in, gc0) ==
    /\ RuntimeState(CacheFile(write_header, <<>>, BasePayload), BaseSession, 1, gc0, 0, "done")
    /\ NoSaveTables
    /\ save_in = in
    /\ save_pc = "start"
    /\ save_en = FALSE
    /\ jl_precompile_toplevel_module = NullPtr
    /\ backref_table = <<>>
    /\ backref_table_numel = 0
    /\ stream = <<>>
    /\ saved = [backref_table |-> <<>>, backref_table_numel |-> 0]
    /\ backref_list = <<>>
    /\ load_status = "none"

(***************************************************************************)
(* Saves of types, methods, method instances and singleton instances.       *)
(***************************************************************************)
TheName == Val("TypeName", 2, "", <<>>)
\* the values below v, v included
RECURSIVE ReachableFrom(_)
ReachableFrom(v) ==
    IF v = NullVal THEN {}
    ELSE {v} \cup UNION {ReachableFrom(v.kids[i]) : i \in DOMAIN v.kids}
\* a type without an instance, and a type with its singleton instance
PlainType(a, id) == Val("DataType", id, a, <<NullVal, TheName, Tagged("emptysvec")>>)
InstanceOfType(a, id) == Val("Singleton", id, "", <<PlainType(a, id)>>)
TypeWithInstance(a, id) ==
    Val("DataType", id, a, <<InstanceOfType(a, id), TheName, Tagged("emptysvec")>>)
SingletonOf(a, id) == Val("Singleton", id, "", <<TypeWithInstance(a, id)>>)
\* one block of a run-length table of root keys
Block(start, key) ==
    Val("Block", start, "", <<Val("Int64", key[1], "", <<>>), Val("Int64", key[2], "", <<>>)>>)
\* roots of a method: the symbols 1 .. n, the blocks starting at the given
\* indices with the given keys
RootsOf(id, n, blocks) ==
    <<Val("Array", id, "", [k \in 1 .. n |-> Val("Symbol", k, "", <<>>)]),
      Val("RootBlocks", id, "", [j \in 1 .. Len(blocks) |-> Block(blocks[j][1], blocks[j][2])])>>
\* most roots of a method
MaxRoots == 3
TheKey == <<WorklistBuildHi, WorklistBuildLo>>
\* the keys of a run-length table: that of the worklist, one that differs in
\* the high half, one that differs in the low half, and 0
RootKeys == {TheKey, <<WorklistBuildHi + 1, WorklistBuildLo>>,
             <<WorklistBuildHi, WorklistBuildLo + 1>>, <<0, 0>>}
\* the tables of a method with n roots: no block, one block from some root on,
\* or two blocks
BlockTables(n) ==
    {<<>>} \cup {<<<<a, k>>>> : a \in 0 .. (n - 1), k \in RootKeys \ {<<0, 0>>}}
           \cup {<<<<0, k>>, <<a, TheKey>>>> : a \in 1 .. (n - 1),
                                               k \in RootKeys \ {<<0, 0>>, TheKey}}
MethodShapes ==
    {Val("Method", 30, "internal", <<>>), Val("Method", 31, "opaque_closure", <<>>),
     Val("Method", 32, "external", <<>>)}
      \cup UNION {{Val("Method", 33, "external", RootsOf(33, n, b)) : b \in BlockTables(n)} :
                     n \in 1 .. MaxRoots}
FlaggedShapes ==
    {PlainType(a, 10) : a \in DatatypeAttrs}
      \cup {TypeWithInstance(a, 11) : a \in {"external", "internal", "worklist_params"}}
      \cup {SingletonOf(a, 12) : a \in {"external", "internal", "worklist_params",
                                         "external_primary", "recursively_external"}}
      \cup {Val("MethodInstance", 20, a, <<>>) : a \in {"worklist", "external", "unqueued",
                                                         "toplevel"}}
      \cup {Val("Mutable", 40, "", [k \in 1 .. NumFields |-> x]) :
               x \in {PlainType("external", 10), SingletonOf("external", 12),
                      Val("Method", 32, "external", <<>>),
                      Val("MethodInstance", 20, "unqueued", <<>>)}}

FlagRoots(items) ==
    <<Val("Array", 1, "", items), Val("Array", 2, "", <<>>), Val("Array", 3, "", <<>>),
      Val("Array", 4, "", <<>>)>>

\* an address holds one object: values of one identity agree in what the
\* serializer asks of them
OneObjectEach(items) ==
    \A i, j \in DOMAIN items :
        \A v \in ReachableFrom(items[i]), w \in ReachableFrom(items[j]) :
            Key(v) = Key(w) =>
                /\ v.attr = w.attr
                /\ v.kind \in {"Method", "Mutable"} => v.kids = w.kids
                /\ v.kind = "Module" => v.kids = w.kids \/ v.kids = <<>> \/ w.kids = <<>>

\* jl_save_incremental is entered with a worklist that holds such values
InitFlags ==
    \E items \in {it \in SeqsUpTo(FlaggedShapes \cup MethodShapes, MaxItems) : OneObjectEach(it)},
       bt \in BOOLEAN :
        /\ StartSave([roots |-> FlagRoots(items), bttag |-> bt, session |-> QuietSession], TRUE)

SpecFlags == InitFlags /\ [][NextCodec]_vars

\* the modules of the scenarios: two loaded packages, a module of one of
\* them, the package that is precompiled with its bindings, a module of it,
\* and a module that is precompiled as part of another package
ExtTop(id) == Val("Module", id, "external_top", <<>>)
ExtSub == Val("Module", 3, "external_sub", <<ExtTop(1)>>)
WorkSub == Val("Module", 6, "worklist_sub", <<Val("Module", 5, "worklist_top", <<>>)>>)
WorkUnder(parent) == Val("Module", 7, "worklist_under_external", <<parent>>)
WorkTop(bindings) ==
    Val("Module", 5, "worklist_top", <<Val("Module", 5, "worklist_top", <<>>)>> \o bindings)
ModuleShapes ==
    {ExtTop(1), ExtTop(2), ExtSub, WorkSub, WorkUnder(ExtTop(1)), WorkUnder(ExtSub)}
      \cup {WorkTop(<<>>)}
      \cup {WorkTop(<<b>>) : b \in {ExtTop(1), ExtTop(2), ExtSub, WorkSub,
                                     Val("Symbol", 1, "", <<>>)}}
\* Base.loaded_modules_array of the saving session
SaveModArrays ==
    {<<ExtTop(1), ExtTop(2), WorkTop(<<>>)>>, <<WorkTop(<<>>), ExtTop(2), ExtTop(1)>>,
     <<ExtTop(2), WorkTop(<<>>), ExtTop(1)>>}
\* the arrays a loading session passes: the modules the manifest names, or
\* another build of one of them, or the modules in another order
LoadModArrays(manifest) ==
    {manifest, [manifest EXCEPT ![1].build_id = 9],
     [i \in 1 .. Len(manifest) |-> manifest[Len(manifest) + 1 - i]]}

\* what the binding of the parent of module 7 holds in the loading session
ExistingBindings == {"NULL", "module", "value", "unwritable"}

InitModules ==
    \E items \in SeqsUpTo(ModuleShapes, MaxItems), a \in SaveModArrays,
       e \in ExistingBindings, inc \in BOOLEAN :
      \E la \in LoadModArrays(write_mod_list(a)) :
        /\ OneObjectEach(items)
        /\ RuntimeState(CacheFile(write_header, <<>>, BasePayload),
                        [existing |-> [id \in 0 .. 7 |-> IF id = 7 THEN e ELSE "NULL"],
                         incremental |-> inc] @@ [BaseSession EXCEPT !.mod_array = la],
                        1, TRUE, 0, "done")
        /\ NoSaveTables
        /\ save_in = [roots |-> FlagRoots(items), bttag |-> FALSE, session |-> QuietSession,
                      mod_array |-> a]
        /\ save_pc = "start"
        /\ save_en = FALSE
        /\ jl_precompile_toplevel_module = NullPtr
        /\ backref_table = <<>>
        /\ backref_table_numel = 0
        /\ stream = <<>>
        /\ saved = [backref_table |-> <<>>, backref_table_numel |-> 0]
        /\ backref_list = <<>>
        /\ load_status = "none"

SpecModules == InitModules /\ [][NextModules]_vars

(***************************************************************************)
(* Saves of sessions with call graphs.                                      *)
(***************************************************************************)
\* callers recorded for one method instance, and entries of newly_inferred
MaxEdges == 2

\* call graphs: the last method instance is external, and every method
\* instance has at most two callers
CallGraphs ==
    {[m \in SMIs |-> [ExternalMI EXCEPT !.in_worklist = (m \in wl),
                                        !.backedges = be[m]]] :
        wl \in SUBSET (SMIs \ {NumSMI}),
        be \in {b \in [SMIs -> DistinctSeqs(SMIs, MaxEdges)] :
                   \A m \in SMIs : \A i \in DOMAIN b[m] : b[m][i] # m}}

\* what the last method instance of a graph may be instead
Flavours ==
    {ExternalMI,
     [ExternalMI EXCEPT !.relocatability = <<0>>],
     [ExternalMI EXCEPT !.relocatability = <<0, 1>>],
     [ExternalMI EXCEPT !.precompiled = TRUE],
     [ExternalMI EXCEPT !.is_method = FALSE]}

SaveOf(ss) == [roots |-> SaveRoots(<<Val("Symbol", 1, "", <<>>)>>), bttag |-> FALSE,
               session |-> ss]

\* saves that differ in the newly_inferred list
InitQueue ==
    \E g \in CallGraphs, fl \in Flavours, list \in SeqsUpTo(SMIs, MaxEdges) :
        StartSave(SaveOf(SaveSession(
                     [g EXCEPT ![NumSMI] = [fl EXCEPT !.backedges = g[NumSMI].backedges]],
                     list, <<>>, {})), TRUE)

\* saves that differ in the back-edges of the method tables and in the
\* callees for which jl_matching_methods answers jl_false
InitCollect ==
    \E g \in CallGraphs, list \in {<<>>, <<NumSMI>>},
       missing \in {<<>>} \cup {<<[sig |-> 1, caller |-> c]>> : c \in SMIs},
       unmatched \in {{}, {SigCallee(1)}} :
        StartSave(SaveOf(SaveSession(g, list, missing, unmatched)), TRUE)

NextSave == SaveBegin \/ SaveCollect \/ SaveSerialize \/ SaveFinish

\* saves whose worklist reaches method instances of the session: live holds
\* the back-edge arrays of the session
InitBackedges ==
    \E g \in CallGraphs, list \in {<<>>, <<NumSMI>>, <<2, NumSMI>>},
       items \in {<<SessionMI(m)>> : m \in SMIs} \cup {<<SessionMI(NumSMI), SessionMI(1)>>} :
        StartSave([roots |-> FlagRoots(items), bttag |-> FALSE,
                   session |-> SaveSession(g, list, <<>>, {}),
                   live |-> [m \in SMIs |-> g[m].backedges]], TRUE)

SpecBackedges == InitBackedges /\ [][NextCodec]_vars

SpecQueue == InitQueue /\ [][NextSave]_vars
SpecCollect == InitCollect /\ [][NextSave]_vars

(***************************************************************************)
(* Saves and loads one after another in one process.  The static tables     *)
(* are what the operation before left of them.                              *)
(***************************************************************************)
\* saves and loads in one run
MaxCalls == 3

\* a session in which method instance 1 of the worklist calls the external
\* method instances 2 and 3, and 3 was newly inferred
BusySession ==
    SaveSession([m \in SMIs |->
                   IF m = 1 THEN [ExternalMI EXCEPT !.in_worklist = TRUE]
                   ELSE [ExternalMI EXCEPT !.backedges = <<1>>]],
                <<3>>, <<[sig |-> 1, caller |-> 1]>>, {})

\* the saves of the run
SeqSaves ==
    {[roots |-> SaveRoots(items), bttag |-> FALSE, session |-> ss] :
        items \in {<<Val("Symbol", 1, "", <<>>)>>,
                   <<Val("IdDict", 0, "", [k \in 1 .. NumFields |-> NullVal]),
                     Val("MethodInstance", 0, "worklist", <<Val("CodeInstance", 1, "valid", <<>>)>>)>>},
        ss \in {QuietSession, BusySession}}

\* the loads of the run: a file that is rejected, and files whose payload
\* fills the tables
SeqLoads ==
    {CacheFile(<<>>, <<>>, BasePayload)}
      \cup {CacheFile(write_header, <<>>,
                      ObjPayload([BasePayload EXCEPT !.mi_list = ml,
                                                     !.edges = <<[caller |-> 1, idxs |-> <<1>>]>>],
                                 objs, {}, 0, 0)) :
               ml \in {<<>>, <<1>>},
               objs \in {<<"datatype", "method">>, <<"IdDict", "datatype", "MethodTable">>}}

\* no operation is in progress and the last ones returned
BetweenCalls ==
    /\ pc = "done"
    /\ save_pc \in {"done", "saved"}
    /\ calls < MaxCalls

\* jl_save_incremental is called
CallSave ==
    /\ BetweenCalls
    /\ \E in \in SeqSaves : save_in' = in
    /\ save_pc' = "start"
    /\ stream' = <<>>
    /\ load_status' = "none"
    /\ calls' = calls + 1
    /\ entry' = [world |-> jl_world_counter, gc |-> gc_enabled, fin |-> finalizers_inhibited]
    /\ UNCHANGED <<ji, wire, type_cache, type_tags, appended_roots, f, rt, jl_world_counter, gc_enabled, finalizers_inhibited,
                   serializer_worklist, pc, en, ret, tables, new_code_instance_validate,
                   flagref_list, ci, mi, uniquing, uniquing_table, slots, methods, mi_valid,
                   specializations, mt_defs, valids, callee_backedges, mt_backedges,
                   reinit_done, passes, queued_method_roots>>
    /\ UNCHANGED <<save_en, jl_precompile_toplevel_module, backref_table, backref_table_numel,
                   saved, edges_map, external_mis, reinit_list, edges_out, backref_list>>

\* jl_restore_incremental is called
CallRestore ==
    /\ BetweenCalls
    /\ \E file \in SeqLoads, lv \in {"none", "limited"} :
          LET session == [BaseSession EXCEPT !.live[1] = lv]
          IN  /\ f' = file
              /\ rt' = session
              /\ ci' = SessionCIs(session, jl_world_counter)
              /\ mi' = SessionMIs(session)
              /\ specializations' = {LiveOf(m) : m \in {x \in MethodInsts : session.live[x] # "none"}}
    /\ pc' = "start"
    /\ ret' = NULL
    /\ en' = FALSE
    /\ slots' = <<>>
    /\ methods' = <<>>
    /\ mi_valid' = <<>>
    /\ mt_defs' = {}
    /\ valids' = <<>>
    /\ callee_backedges' = [i \in Targets |-> <<>>]
    /\ mt_backedges' = <<>>
    /\ reinit_done' = <<>>
    /\ passes' = <<>>
    /\ calls' = calls + 1
    /\ entry' = [world |-> jl_world_counter, gc |-> gc_enabled, fin |-> finalizers_inhibited]
    /\ appended_roots' = <<>>
    /\ type_cache' = {}
    /\ type_tags' = <<>>
    /\ UNCHANGED <<ji, wire, jl_world_counter, gc_enabled, finalizers_inhibited, serializer_worklist,
                   tables, new_code_instance_validate, flagref_list, uniquing, uniquing_table,
                   queued_method_roots>>
    /\ UNCHANGED savevars

NextCalls ==
    \/ Next
    \/ SaveBegin
    \/ SaveCollect
    \/ SaveSerialize
    \/ SaveFinish
    \/ CallSave
    \/ CallRestore

\* the first call of the process
InitCalls ==
    \/ \E file \in SeqLoads, g \in BOOLEAN :
          StartLoad(file, BaseSession, 1, g, 0)
    \/ \E in \in SeqSaves, g \in BOOLEAN : StartSave(in, g)

SpecCalls == InitCalls /\ [][NextCalls]_vars

(***************************************************************************)
(* Properties.                                                             *)
(***************************************************************************)
\* pass p has completed
Done(p) == \E i \in 1 .. Len(passes) : passes[i] = p

\* the fix-up passes, in the order the load is to run them
FixupOrder == <<"jl_recache_types", "jl_insert_methods", "jl_recache_other", "jl_copy_roots",
                "jl_insert_method_instances", "jl_verify_edges", "jl_insert_backedges",
                "validate_new_code_instances">>
\* the fix-up passes that have completed, in order of completion
FixupsDone == SelectSeq(passes, LAMBDA p : p \in Range(FixupOrder))

\* C2: in every load that passes verification the eight fix-up passes run one
\* after another in the order jl_recache_types, jl_insert_methods,
\* jl_recache_other, jl_copy_roots, jl_insert_method_instances,
\* jl_verify_edges, back-edge insertion, validate_new_code_instances: a pass
\* starts only when exactly the passes before it have completed and the
\* payload has been decoded, and a load that returns the restored modules has
\* run all eight.
C2_FixupOrder ==
    /\ \A k \in 1 .. Len(FixupOrder) :
          pc = FixupOrder[k] =>
             /\ FixupsDone = SubSeq(FixupOrder, 1, k - 1)
             /\ passes # <<>> /\ passes[1] = "decode"
    /\ ret = "restored" => FixupsDone = FixupOrder

C2_Witness == ret = "restored" /\ Len(FixupsDone) = 8 /\ passes[1] = "decode"

\* the load was rejected by jl_read_verify_header or read_verify_mod_list
Rejects(file, session) ==
    \/ file.header = <<>>
    \/ ~jl_read_verify_header(file.header)
    \/ read_verify_mod_list(file.modlist, session.mod_array, session.main_build_id) # NULL

\* C8: when the header or the manifest does not verify,
\* _jl_restore_incremental returns an error value and the runtime is as it
\* was on entry: the world counter, the GC and finalizer states are unchanged,
\* no per-load table exists, and no module, method, method instance or
\* back-edge has been installed.
C8_RejectedLoadLeavesRuntime ==
    Rejects(f, rt) =>
       /\ pc \in {"start", "read_verify_mod_list", "done"}
       /\ pc = "done" => ret \notin {NULL, "restored"}
       /\ jl_world_counter = entry.world
       /\ gc_enabled = entry.gc
       /\ finalizers_inhibited = entry.fin
       /\ tables = {}
       /\ serializer_worklist = NullPtr
       /\ reinit_done = <<>>
       /\ mt_defs = {}
       /\ specializations \cap MethodInsts = {}
       /\ DOMAIN mi \cap MethodInsts = {}
       /\ \A i \in Targets : callee_backedges[i] = <<>>
       /\ mt_backedges = <<>>

C8_Witness ==
    /\ pc = "done"
    /\ ret = "Invalid input in module list"
    /\ jl_read_verify_header(f.header)

\* the positions at which objects are decoded and recached
DecodePhase == {"decode", "jl_recache_types", "jl_insert_methods", "jl_recache_other",
                "jl_copy_roots", "jl_insert_method_instances", "jl_finalize_deserializer"}
\* the positions at which edges are verified and code instances validated
EdgePhase == {"jl_verify_edges", "jl_insert_backedges", "validate_new_code_instances"}

\* C9 (as amended): during a load the GC stays disabled from before the first
\* object is decoded until jl_finalize_deserializer has finished; it is then
\* put back to its state from before the load, so edge verification,
\* back-edge insertion and validate_new_code_instances run with the GC as the
\* caller had it.  Finalizers stay disabled from before the first object is
\* decoded until validate_new_code_instances has finished.
C9_GCBracket ==
    /\ pc \in DecodePhase \cup {"jl_gc_enable"} => ~gc_enabled
    /\ pc \in EdgePhase => gc_enabled = entry.gc
    /\ pc \in DecodePhase \cup {"jl_gc_enable"} \cup EdgePhase =>
          finalizers_inhibited = entry.fin + 1

C9_Witness == pc = "jl_insert_backedges" /\ gc_enabled /\ finalizers_inhibited > 0

\* C9 (as stated): the GC and finalizers both stay disabled from before the
\* first object is decoded until validate_new_code_instances has finished.
C9_Stated ==
    pc \in DecodePhase \cup {"jl_gc_enable"} \cup EdgePhase =>
       ~gc_enabled /\ finalizers_inhibited > 0

\* the validate flag with which code instance c was decoded
DecodedFlag(c) == f.p.chain[c[1]][c[2]]
\* the world age the load reserved
LoadWorld == entry.world + 1
\* min_world and max_world of code instance c right after decoding (for a
\* code instance of the session: before the load)
BoundsAtDecode(c) ==
    IF c[1] > 0
    THEN [min_world |-> IF DecodedFlag(c) THEN LoadWorld ELSE 0, max_world |-> 0]
    ELSE [min_world |-> LiveCI(rt.live[0 - c[1]], entry.world).min_world,
          max_world |-> LiveCI(rt.live[0 - c[1]], entry.world).max_world]
\* entry k of edges has only valid callee indices
ValidCaller(k) == CallerValid(valids, f.p.edges[k])
\* the back-edge from callee index idx to caller is in place
HasBackedge(idx, caller) ==
    IF f.p.ext_targets[idx].callee = "mi"
    THEN caller \in Range(callee_backedges[idx])
    ELSE <<idx, caller>> \in Range(mt_backedges)
\* some back-edge to caller is in place
SomeBackedge(caller) ==
    \/ \E i \in Targets : caller \in Range(callee_backedges[i])
    \/ \E j \in 1 .. Len(mt_backedges) : mt_backedges[j][2] = caller

\* C3 (as amended): after a completed load no deserialized code instance has
\* been detached: each is still linked in the chain it was decoded into.  One
\* decoded with the validate flag set has min_world = the world age of the
\* load and max_world either infinity (then min_world <= jl_world_counter <=
\* max_world) or 0; one decoded with the flag clear has min_world =
\* max_world = 0.  Those with max_world = 0 stay linked and cover no world.
C3_LinkedBounds ==
    ret = "restored" =>
       \A c \in DecodedCIs(f.p) :
          /\ c \in ChainOf(ci, mi, c[1])
          /\ IF DecodedFlag(c)
             THEN /\ ci[c].min_world = LoadWorld
                  /\ LoadWorld <= jl_world_counter
                  /\ ci[c].max_world \in {0, WorldInf}
             ELSE ci[c].min_world = 0 /\ ci[c].max_world = 0

C3_Witness ==
    /\ ret = "restored"
    /\ \E c \in DecodedCIs(f.p) :
          /\ c \in ChainOf(ci, mi, c[1])
          /\ DecodedFlag(c) /\ ci[c].max_world = 0
    /\ \E c \in DecodedCIs(f.p) : ci[c].max_world = WorldInf

\* C3 (as stated): after a completed load every code instance still linked in
\* the cache chain of a restored method instance satisfies
\* min_world <= jl_world_counter <= max_world.
C3_Stated ==
    ret = "restored" =>
       \A m \in MethodInsts : \A c \in ChainOf(ci, mi, m) :
          c[1] > 0 => /\ ci[c].min_world <= jl_world_counter
                      /\ jl_world_counter <= ci[c].max_world

\* C4 (as amended): when jl_insert_backedges processes the callers, for every
\* caller of edges whose callee indices are all valid, every code instance on
\* the caller's chain that is in new_code_instance_validate gets
\* max_world = infinity, and every other code instance on the chain keeps its
\* max_world.
C4_ValidCallerPromotion ==
    [][pc = "jl_insert_backedges" =>
         \A k \in 1 .. Len(f.p.edges) :
            ValidCaller(k) =>
               \A c \in ChainOf(ci, mi, f.p.edges[k].caller) :
                  IF c \in new_code_instance_validate
                  THEN ci'[c].max_world = WorldInf
                  ELSE ci'[c].max_world = ci[c].max_world]_vars

C4_Witness ==
    /\ Done("jl_insert_backedges")
    /\ \E k \in 1 .. Len(f.p.edges) :
          /\ ValidCaller(k)
          /\ \E c, d \in ChainOf(ci, mi, f.p.edges[k].caller) :
                ci[c].max_world = WorldInf /\ ci[d].max_world = 0

\* C4 (as stated): after jl_insert_backedges, every code instance on the chain
\* of a caller whose callee indices are all valid has max_world = infinity.
C4_Stated ==
    Done("jl_insert_backedges") =>
       \A k \in 1 .. Len(f.p.edges) :
          ValidCaller(k) =>
             \A c \in ChainOf(ci, mi, f.p.edges[k].caller) : ci[c].max_world = WorldInf

\* C5: for every caller of edges with an invalid callee index,
\* jl_insert_backedges adds no back-edge for the caller, and min_world and
\* max_world of every code instance on its chain are, after
\* jl_insert_backedges and after validate_new_code_instances, what they were
\* right after decoding.
C5_InvalidCallerUntouched ==
    Done("jl_insert_backedges") =>
       \A k \in 1 .. Len(f.p.edges) :
          ~ValidCaller(k) =>
             /\ ~SomeBackedge(f.p.edges[k].caller)
             /\ \A c \in ChainOf(ci, mi, f.p.edges[k].caller) :
                   /\ ci[c].min_world = BoundsAtDecode(c).min_world
                   /\ ci[c].max_world = BoundsAtDecode(c).max_world

C5_Witness ==
    /\ Done("validate_new_code_instances")
    /\ \E k \in 1 .. Len(f.p.edges) :
          /\ ~ValidCaller(k)
          /\ \E c \in ChainOf(ci, mi, f.p.edges[k].caller) :
                c[1] > 0 /\ DecodedFlag(c) /\ ci[c].max_world = 0
    /\ \E c \in DOMAIN ci : ci[c].max_world = WorldInf /\ c[1] > 0

\* C7: a caller whose callee indices are all valid gets every one of its
\* back-edges added and its validated code instances promoted, whatever the
\* validity of the callees it does not reference and whatever the order of
\* the callers in edges.
C7_Stated ==
    Done("jl_insert_backedges") =>
       \A k \in 1 .. Len(f.p.edges) :
          ValidCaller(k) =>
             LET e == f.p.edges[k]
             IN  /\ \A j \in 1 .. Len(e.idxs) : HasBackedge(e.idxs[j], e.caller)
                 /\ (\A i \in 1 .. Len(mi_valid) : mi_valid[i] = 1) =>
                       \A c \in ChainOf(ci, mi, e.caller) :
                          (c[1] > 0 /\ DecodedFlag(c)) => ci[c].max_world = WorldInf

\* the current answer of matching for callee i is the cached list, as a set
SameMethods(i) ==
    /\ rt.matching[i] # JlFalse
    /\ Len(rt.matching[i]) = Len(f.p.ext_targets[i].expected)
    /\ Range(rt.matching[i]) = Range(f.p.ext_targets[i].expected)

\* C6 (as amended): jl_verify_edges sets valids[i] = 1 exactly when matching
\* of callee i's signature in the current world succeeds and returns as many
\* methods as the cached list holds, the same methods in any order; in every
\* other case valids[i] = 0, and valids has one entry per callee.
C6_SameMethodSet ==
    Done("jl_verify_edges") =>
       /\ Len(valids) = Len(f.p.ext_targets)
       /\ \A i \in 1 .. Len(valids) :
             valids[i] = (IF SameMethods(i) THEN 1 ELSE 0)

C6_Witness ==
    /\ Done("jl_verify_edges")
    /\ valids[1] = 1
    /\ Len(rt.matching[1]) = 2
    /\ rt.matching[1] # f.p.ext_targets[1].expected

\* C6 (as stated): valids[i] = 1 exactly when matching succeeds and its result
\* equals the cached list element by element.
C6_Stated ==
    Done("jl_verify_edges") =>
       /\ Len(valids) = Len(f.p.ext_targets)
       /\ \A i \in 1 .. Len(valids) :
             valids[i] = (IF rt.matching[i] = f.p.ext_targets[i].expected THEN 1 ELSE 0)

\* position n of the save numbering is taken by no object of backref_table
\* (jl_serialize_cnull took it for the replacement)
TakenByCnull(n) == \A k \in DOMAIN saved.backref_table : saved.backref_table[k] \div 2 # n

\* C1: for every save and the load of the stream it produced, the n-th
\* backref position assigned by the serializer and the n-th entry pushed to
\* backref_list denote the same object: as many entries are pushed as
\* positions were assigned, every object of backref_table is the entry at its
\* position, and the position of a C-null replacement holds the replacement.
C1_Stated ==
    load_status # "none" =>
       /\ load_status = "decoded"
       /\ Len(backref_list) = saved.backref_table_numel
       /\ \A k \in DOMAIN saved.backref_table :
             /\ saved.backref_table[k] \div 2 < Len(backref_list)
             /\ backref_list[saved.backref_table[k] \div 2 + 1] = k
       /\ \A n \in 0 .. (Len(backref_list) - 1) :
             TakenByCnull(n) => backref_list[n + 1] = <<"Ptr", 0>>

\* C10: if an error is raised inside a save after the GC was disabled, then on
\* exit the GC enable state and the finalizer state are back at their values
\* from before the call, the per-operation tables are freed or reset, and
\* serializer_worklist and jl_precompile_toplevel_module are cleared.
C10_Stated ==
    save_pc = "thrown" =>
       /\ gc_enabled = entry.gc
       /\ finalizers_inhibited = entry.fin
       /\ tables = {}
       /\ backref_table = <<>>
       /\ serializer_worklist = NullPtr
       /\ jl_precompile_toplevel_module = NullPtr

\* the passes that recache and insert what was decoded
RecachePasses == {"jl_recache_types", "jl_insert_methods", "jl_recache_other", "jl_copy_roots",
                  "jl_insert_method_instances"}

\* C11 (as amended): in a load the reinit list is replayed
\* (jl_finalize_deserializer) once jl_recache_types, jl_insert_methods,
\* jl_recache_other, jl_copy_roots and jl_insert_method_instances have
\* completed, and before edge verification, back-edge insertion and
\* validate_new_code_instances: none of these three has started when the list
\* is replayed, each of them starts only after the replay, and a load that
\* returns the restored modules has replayed the list.
C11_ReinitAfterRecache ==
    /\ pc = "jl_finalize_deserializer" =>
          /\ Range(passes) = RecachePasses \cup {"decode"}
          /\ reinit_done = <<>>
    /\ (reinit_done # <<>> \/ Done("jl_finalize_deserializer")) =>
          \A p \in RecachePasses : Done(p)
    /\ \A p \in EdgePhase : (pc = p \/ Done(p)) => Done("jl_finalize_deserializer")
    /\ ret = "restored" => Done("jl_finalize_deserializer")

C11_Witness ==
    /\ pc = "jl_verify_edges"
    /\ reinit_done # <<>>
    /\ ~Done("jl_verify_edges")

\* C11 (as stated): the reinit list is replayed only after all fix-up passes
\* have completed, edge verification, back-edge insertion and
\* validate_new_code_instances included.
C11_Stated ==
    (pc = "jl_finalize_deserializer" \/ Done("jl_finalize_deserializer")) =>
       FixupsDone = FixupOrder

\* the reinit entry replayed i-th threw and was caught
ReinitThrows(i) == reinit_done[i].how \in {1, 2} /\ reinit_done[i].v \in rt.reinit_throws

\* C12: the reinit entries are replayed on load in exactly the order in which
\* the serializer recorded them, each against the object backref_list holds
\* at its recorded position after recaching; an exception thrown while one
\* entry is reinitialized is caught, the entries after it are still replayed,
\* and the load still returns its result.
C12_ReinitReplay ==
    /\ ~Done("jl_finalize_deserializer") => reinit_done = <<>>
    /\ Done("jl_finalize_deserializer") =>
          /\ Len(reinit_done) = Len(f.p.reinit_list)
          /\ \A i \in 1 .. Len(reinit_done) :
                /\ reinit_done[i].pos = f.p.reinit_list[i].pos
                /\ reinit_done[i].how = f.p.reinit_list[i].how
                /\ backref_list # <<>> => reinit_done[i].v = backref_list[reinit_done[i].pos + 1]
                /\ reinit_done[i].outcome = IF ReinitThrows(i) THEN "caught" ELSE "done"
    /\ pc # "abort"
    /\ pc = "done" /\ ~Rejects(f, rt) => ret = "restored"

C12_Witness ==
    /\ ret = "restored"
    /\ \E i, j \in 1 .. Len(reinit_done) :
          /\ i < j
          /\ reinit_done[i].outcome = "caught"
          /\ reinit_done[j].outcome = "done"
          /\ reinit_done[j].how # reinit_done[i].how

\* the object entry e referred to when it was pushed
DecodedObj(e) == IF e.loc # 0 THEN f.p.slots[e.loc] ELSE <<f.p.objs[e.offs], e.offs>>
\* the entries pushed for methods and method instances, in the order pushed
MethodEntries ==
    SelectSeq(f.p.flagrefs, LAMBDA e : jl_is_method(DecodedObj(e)) \/ jl_is_method_instance(DecodedObj(e)))
\* what recaching is to leave in place of placeholder o
ImageOf(o) ==
    IF o[1] = "singleton" THEN InstanceOf(uniquing_table[TypeOf(o)]) ELSE uniquing_table[o]

\* C13: after jl_recache_types, flagref_list holds exactly the entries whose
\* object is a method or a method instance: every other entry is removed and
\* the swap-with-last deletion loses none of them.  After jl_recache_other the
\* list is empty, and every recorded location and every positive backref slot
\* holds the uniquing-table image of the placeholder it held.
C13_FlagrefsResolved ==
    /\ pc \in {"jl_insert_methods", "jl_recache_other"} =>
          /\ Len(flagref_list) = Len(MethodEntries)
          /\ Range(flagref_list) = Range(MethodEntries)
    /\ pc \in {"jl_copy_roots", "jl_insert_method_instances", "jl_finalize_deserializer"} =>
          /\ flagref_list = <<>>
          /\ \A i \in 1 .. Len(f.p.flagrefs) :
                LET e == f.p.flagrefs[i]
                IN  /\ e.loc # 0 => slots[e.loc] = ImageOf(DecodedObj(e))
                    /\ e.offs > 0 => backref_list[e.offs + 1] = ImageOf(DecodedObj(e))
    /\ pc # "abort"

C13_Witness ==
    /\ pc = "jl_copy_roots"
    /\ Len(f.p.flagrefs) > 2
    /\ Len(MethodEntries) > 1
    /\ ~jl_is_method(DecodedObj(f.p.flagrefs[1]))
    /\ ~jl_is_method_instance(DecodedObj(f.p.flagrefs[1]))
    /\ \A i \in 1 .. Len(f.p.slots) : slots[i] # f.p.slots[i]

\* the deserialized method instance m was dropped in favour of the
\* specialization the session already had
Dropped(m) ==
    m \in Range(f.p.mi_list) /\ jl_specializations_get_or_insert(rt.live, m) # m

\* C14: every caller for which jl_insert_backedges records a back-edge or
\* promotes code instances is the canonical method instance, the one
\* jl_specializations_get_or_insert returned in jl_insert_method_instances,
\* and never a deserialized method instance that was dropped in favour of a
\* specialization that existed before.
C14_Stated ==
    Done("jl_insert_backedges") =>
       \A k \in 1 .. Len(f.p.edges) :
          (ValidCaller(k) \/ SomeBackedge(f.p.edges[k].caller)) => ~Dropped(f.p.edges[k].caller)

\* the positions at which nothing has been decoded yet
BeforeDecode == {"start", "read_verify_mod_list", "prepare"}

\* C15: a load that passes header and manifest verification increments
\* jl_world_counter by exactly one before any object is decoded, and every
\* internal method decoded in that load receives primary_world equal to the
\* counter after that increment and deleted_world = infinity.
C15_WorldStamp ==
    /\ pc \in BeforeDecode => jl_world_counter = entry.world /\ methods = <<>>
    /\ pc = "prepare" => backref_list = <<>> /\ ~Rejects(f, rt)
    /\ pc \notin BeforeDecode /\ ~Rejects(f, rt) => jl_world_counter = LoadWorld
    /\ Done("decode") =>
          \A k \in 1 .. Len(f.p.objs) :
             f.p.objs[k] = "imethod" =>
                /\ k \in DOMAIN methods
                /\ methods[k].primary_world = LoadWorld
                /\ methods[k].deleted_world = WorldInf

C15_Witness ==
    /\ ret = "restored"
    /\ entry.world = MaxWorld0
    /\ \E k \in DOMAIN methods : methods[k].primary_world = MaxWorld0 + 1
    /\ \E k \in DOMAIN methods : methods[k].primary_world = 0

\* the queued method instances that no longer dispatch to their method
QueuedInvalid == {f.p.mi_list[i] : i \in {j \in 1 .. Len(f.p.mi_list) : mi_valid[j] = 0}}
\* the callers invalidated through the back-edges of those
InvalidatedCallers ==
    BackReach([m \in MethodInsts |-> [backedges |-> f.p.mi_backedges[m]]],
              UNION {Range(f.p.mi_backedges[m]) : m \in QueuedInvalid}, {})
\* the callers of edges with an invalid callee, and those whose callees are all valid
InvalidCallers == {f.p.edges[k].caller : k \in {j \in 1 .. Len(f.p.edges) : ~ValidCaller(j)}}
ValidCallers == {f.p.edges[k].caller : k \in {j \in 1 .. Len(f.p.edges) : ValidCaller(j)}}
\* code instance c was removed from the validation set without being promoted
Rejected(c) == c[1] \in QueuedInvalid \cup InvalidatedCallers \cup InvalidCallers

\* C16 (as amended): after a completed load a deserialized code instance has
\* max_world = infinity if and only if it was decoded with the validate flag
\* set and was not removed from the validation set before it was promoted.
\* Removal without promotion happens exactly for the code instances of a
\* queued method instance that no longer dispatches to its method, of the
\* callers invalidated through its back-edges, and of a caller with an invalid
\* callee; jl_insert_backedges also removes the code instances of a caller
\* whose callees are all valid, after it has promoted them, so that
\* validate_new_code_instances finds in the set exactly the flagged code
\* instances that are on no caller's chain and were not rejected.
C16_PromotedExactly ==
    /\ pc = "cleanup" =>
          new_code_instance_validate =
             {c \in DecodedValidate(f.p) : ~Rejected(c) /\ c[1] \notin ValidCallers}
    /\ pc \in {"cleanup", "finish", "done"} /\ ~Rejects(f, rt) =>
          \A c \in DecodedCIs(f.p) :
             ci[c].max_world = WorldInf <=> (DecodedFlag(c) /\ ~Rejected(c))

C16_Witness ==
    /\ ret = "restored"
    /\ \E c \in DecodedCIs(f.p) :
          DecodedFlag(c) /\ c[1] \in ValidCallers /\ ci[c].max_world = WorldInf
    /\ \E c \in DecodedCIs(f.p) :
          DecodedFlag(c) /\ c[1] \in QueuedInvalid /\ ci[c].max_world = 0

\* C16 (as stated): after the last pass a deserialized code instance has
\* max_world = infinity if and only if it was decoded with the validate flag
\* set and was never removed from the validation set, that is, if and only
\* if it is still in the set when the set is freed.
C16_Stated ==
    pc = "cleanup" =>
       \A c \in DecodedCIs(f.p) :
          ci[c].max_world = WorldInf <=> c \in new_code_instance_validate

\* the tags that open the body of an object with a position of its own
BodyTags == {"TAG_SYMBOL", "TAG_SHORTER_INT64", "TAG_ARRAY1D", "TAG_METHOD_INSTANCE",
             "TAG_CODE_INSTANCE", "TAG_SHORT_GENERAL", "TAG_CNULL"}
BackrefTags == {"TAG_BACKREF", "TAG_SHORT_BACKREF"}
\* the object the serializer entered in backref_table at position n
SavedAt(n) == {k \in DOMAIN saved.backref_table : saved.backref_table[k] \div 2 = n}
\* the save wrote no body twice: every body follows the assignment of a fresh
\* position, and every back reference is to the position of an object of
\* backref_table
BodiesOnce ==
    /\ Cardinality({i \in 1 .. Len(stream) : stream[i].tag \in BodyTags})
          <= saved.backref_table_numel - 1
    /\ \A i \in 1 .. Len(stream) :
          stream[i].tag \in BackrefTags => SavedAt(stream[i].a \div 2) # {}

\* C17: the save of a finite object graph, cycles included, ends and writes
\* each object's body at most once, every later occurrence being a back
\* reference to the position assigned before the body was encoded; on load
\* every back reference that is read refers to a backref_list slot that is
\* already filled with the same object as the first occurrence.
C17_Stated ==
    /\ save_pc = "saved" => BodiesOnce
    /\ load_status # "none" =>
          /\ load_status = "decoded"
          /\ \A r \in Range(DecodedStream.refs) :
                r.bp # NullPtr /\ r.bp \in SavedAt(r.offs)

\* the worklist jl_save_incremental was called with
Worklist == save_in.roots[1].kids
\* the payload of a save that found nothing to write: four empty arrays
EmptyPayload ==
    SerializeRoots(Ser(<<>>, (MainModule :> 0), 1, ""), SaveRoots(<<>>), 1, save_in.bttag).out
       \o Trailer(<<>>)

\* C18: jl_save_incremental called with an empty worklist completes without
\* error and writes a file that holds only the header, the manifests and an
\* empty payload; restoring that file returns an empty restored-module list.
C18_Stated ==
    Worklist = <<>> =>
       /\ save_pc \in {"start", "jl_serialize_value", "jl_finalize_serializer", "saved"}
       /\ save_pc = "saved" => stream = EmptyPayload /\ jl_precompile_toplevel_module = NullPtr
       /\ load_status # "none" =>
             /\ load_status = "decoded"
             /\ backref_list = <<MainModule>> \o [i \in 1 .. 4 |-> <<"Array", i>>]

\* entry i of the file's manifest names loaded module i
SameModule(i) ==
    /\ rt.mod_array[i].is_module
    /\ rt.mod_array[i].name = f.modlist[i].name
    /\ rt.mod_array[i].uuid.hi = f.modlist[i].uuid.hi
    /\ rt.mod_array[i].uuid.lo = f.modlist[i].uuid.lo
    /\ rt.mod_array[i].build_id = f.modlist[i].build_id
ManifestMatches ==
    /\ Len(f.modlist) = Len(rt.mod_array)
    /\ \A i \in 1 .. Len(f.modlist) : SameModule(i)
ModListErrors == {"Main module uuid state is invalid for module deserialization.",
                  "Wrong number of entries in module list.", "Invalid input in module list"}

\* C19: read_verify_mod_list returns success exactly when the file's manifest
\* has as many entries as the loaded-modules array and every entry has the
\* name, UUID (hi and lo) and build-id of the loaded module at its index; in
\* every other case, and whenever the main module's build-id is zero, it
\* returns an error and the load ends with that error before any object is
\* decoded.
C19_ModListVerified ==
    /\ read_verify_mod_list(f.modlist, rt.mod_array, rt.main_build_id) = NULL
          <=> (rt.main_build_id # 0 /\ ManifestMatches)
    /\ (pc # "start" /\ jl_read_verify_header(f.header)
           /\ ~(rt.main_build_id # 0 /\ ManifestMatches)) =>
          /\ pc \in {"read_verify_mod_list", "done"}
          /\ pc = "done" => ret \in ModListErrors
          /\ passes = <<>>
          /\ backref_list = <<>>
          /\ flagref_list = <<>>
          /\ jl_world_counter = entry.world
          /\ gc_enabled = entry.gc
    /\ (pc \notin {"start", "read_verify_mod_list"} /\ jl_read_verify_header(f.header)
           /\ rt.main_build_id # 0 /\ ManifestMatches) => ret \notin ModListErrors

C19_Witness ==
    /\ pc = "done"
    /\ ret = "Invalid input in module list"
    /\ Len(f.modlist) = 2
    /\ Len(rt.mod_array) = 2
    /\ SameModule(1)
    /\ rt.mod_array[2] = [f.modlist[2] EXCEPT !.uuid.lo = 2]

\* the stream begins with the magic, version, byte-order mark, pointer size
\* and NUL-terminated strings of the running build
BuildHeader(s) ==
    /\ Len(s) >= Len(write_header)
    /\ SubSeq(s, 1, Len(write_header)) = write_header
HeaderFailed == "Precompile file header verification checks failed."

\* C20: jl_read_verify_header answers true exactly for the streams whose
\* magic, format version, byte-order mark, pointer size and NUL-terminated
\* uname, arch, version, branch and commit strings equal the running build's:
\* it accepts the header write_header writes in the same build and rejects a
\* header in which one field was altered, also when an altered string extends
\* the expected one or is a prefix of it.
C20_HeaderExact ==
    /\ jl_read_verify_header(write_header)
    /\ jl_read_verify_header(f.header) <=> BuildHeader(f.header)
    /\ \A h \in OtherBuilds : ~jl_read_verify_header(h)
    /\ pc # "start" => (ret = HeaderFailed <=> ~BuildHeader(f.header))

C20_Witness ==
    /\ pc = "done"
    /\ ret = HeaderFailed
    /\ f.header = HeaderOf(JI_FORMAT_VERSION, BOM, PtrSize, [BuildStrings EXCEPT ![5] = Append(@, 97)])


\* C21 Each save starts with a backref table that holds only the main module
\* at position 0, with next position 1 and an empty edges map, external-MI set
\* and reinit list; each load starts with a backref list that holds only the
\* main module and with an empty flag-ref list, uniquing table,
\* queued-method-roots table and code-instance validation set; what the
\* tables hold later in the operation was entered by this operation.
C21_FreshTables ==
    /\ save_pc = "queue_external_mis" =>
          /\ backref_table = (MainModule :> 0)
          /\ backref_table_numel = 1
          /\ edges_map = <<>>
          /\ external_mis = {}
          /\ reinit_list = <<>>
    /\ pc = "decode" =>
          /\ backref_list = <<MainModule>>
          /\ flagref_list = <<>>
          /\ uniquing_table = <<>>
          /\ uniquing = <<>>
          /\ queued_method_roots = <<>>
          /\ new_code_instance_validate = {}
    /\ save_pc \in {"jl_serialize_value", "jl_finalize_serializer"} =>
          /\ external_mis \subseteq {save_in.session.newly_inferred[i] :
                                        i \in DOMAIN save_in.session.newly_inferred}
          /\ DOMAIN edges_map \subseteq DOMAIN edges_out.edges_map
          /\ \A i \in DOMAIN reinit_list :
                /\ reinit_list[i].pos < backref_table_numel
                /\ \E o \in DOMAIN backref_table : backref_table[o] = reinit_list[i].pos
                /\ \A j \in DOMAIN reinit_list : reinit_list[j].pos = reinit_list[i].pos => j = i
    /\ pc = LoadSteps[1] =>
          /\ Len(backref_list) = 1 + Len(f.p.objs)
          /\ flagref_list = f.p.flagrefs
          /\ new_code_instance_validate = DecodedValidate(f.p)
          /\ DOMAIN queued_method_roots =
                {<<"method", k>> : k \in {j \in 1 .. Len(f.p.objs) : f.p.objs[j] = "method"}}
          /\ DOMAIN uniquing_table =
                {<<"datatype", k>> : k \in {j \in 1 .. Len(f.p.objs) : f.p.objs[j] = "datatype"}}

\* a third operation, a save, starts after a save that queued an external
\* method instance, collected edges and numbered objects, and after a load
\* that decoded a payload with flagged references
C21_Witness ==
    /\ calls = MaxCalls
    /\ save_pc = "queue_external_mis"
    /\ edges_out.n > 0
    /\ edges_out.edges # <<>>
    /\ saved.backref_table_numel > 1
    /\ "decode" \in {passes[i] : i \in DOMAIN passes}
    /\ f.p.flagrefs # <<>>

\* the values a save reaches from v
RECURSIVE Reachable(_)
Reachable(v) ==
    IF v = NullVal THEN {}
    ELSE {v} \cup UNION {Reachable(v.kids[i]) : i \in DOMAIN v.kids}
SaveReaches == UNION {Reachable(save_in.roots[i]) : i \in DOMAIN save_in.roots}
\* the values that cannot be cached
Uncacheable(v) ==
    \/ v.kind \in {"Task", "OpaqueClosure", "Foreign"}
    \/ v.kind = "MethodInstance" /\ v.attr = "opaque_closure"
IsRootTask(v) == v.kind = "Task" /\ v.attr = "root_task"
SaveSerialized == save_pc \in {"jl_finalize_serializer", "saved"}

\* C22 as stated: a save whose reachable object graph contains a task, a live
\* opaque closure, an instance of a foreign datatype or a method instance of
\* an opaque-closure method raises an error, the objects registered in the
\* tag table included.
C22_Stated ==
    SaveSerialized => \A v \in SaveReaches : ~Uncacheable(v)

\* C22 A save that reaches a task other than the root task of the tag table,
\* a live opaque closure, an instance of a foreign datatype or a method
\* instance of an opaque-closure method raises an error instead of writing
\* that object; the root task, which is registered in the tag table, is
\* written as its tag and raises no error.
C22_UncacheableRaises ==
    /\ SaveSerialized => \A v \in SaveReaches : Uncacheable(v) => IsRootTask(v)
    /\ save_pc \in {"thrown", "jl_finalize_serializer", "saved"}
         /\ (\E v \in SaveReaches : Uncacheable(v) /\ ~IsRootTask(v))
         => save_pc = "thrown"
    /\ save_pc = "thrown" =>
          \/ \E v \in SaveReaches : Uncacheable(v) /\ ~IsRootTask(v)
          \/ \E v \in SaveReaches : v.kind = "CodeInstance"
    /\ SaveSerialized /\ (\E v \in SaveReaches : IsRootTask(v)) =>
          \E i \in DOMAIN stream : stream[i] = Tok("ser_tag", ser_tag("root_task"))

\* a save meets an uncacheable object below a struct of the worklist and
\* raises the error
C22_Witness ==
    /\ save_pc = "thrown"
    /\ \E v \in SaveReaches :
          /\ v.kind = "Mutable"
          /\ \E i \in DOMAIN v.kids : v.kids[i] # NullVal /\ Uncacheable(v.kids[i])
                                       /\ ~IsRootTask(v.kids[i])
    /\ \E v \in SaveReaches : IsRootTask(v)

\* C23 After a completed load every deserialized code instance has
\* min_world <= jl_world_counter: its min_world is 0 or the value of the
\* counter read while it was decoded, and the counter never decreases during
\* the load.
C23_MinWorldBounded ==
    /\ [](pc = "done" /\ "decode" \in {passes[i] : i \in DOMAIN passes} =>
            \A c \in DecodedCIs(f.p) :
               /\ ci[c].min_world <= jl_world_counter
               /\ ci[c].min_world \in {0, entry.world + 1})
    /\ [][jl_world_counter' >= jl_world_counter]_vars

\* a load has completed that decoded a code instance to validate and one not
\* to validate
C23_Witness ==
    /\ pc = "done"
    /\ "decode" \in {passes[i] : i \in DOMAIN passes}
    /\ \E c, d \in DecodedCIs(f.p) :
          /\ ci[c].min_world = jl_world_counter
          /\ ci[d].min_world = 0
    /\ jl_world_counter > entry.world

\* the callees reachable from the callees R through the map em
RECURSIVE CalleeClosure(_, _)
CalleeClosure(em, R) ==
    LET more == R \cup UNION {Range(em[c[2]]) : c \in {x \in R : x[1] = "mi" /\ x[2] \in DOMAIN em}}
    IN  IF more = R THEN R ELSE CalleeClosure(em, more)
ReachableCallees(em, caller) == CalleeClosure(em, Range(em[caller]))
\* the callees that the index list of the i-th entry of edges denotes
DenotedCallees(i) ==
    {edges_out.ext_targets[k + 1].callee : k \in Range(edges_out.edges[i].idxs)}
EdgesCollected == save_pc \in {"jl_serialize_value", "jl_finalize_serializer", "saved"}

\* C24 For every caller emitted in edges, its callee-index list denotes
\* exactly the callees reachable from it through the edges map as it stood
\* when jl_collect_backedges began, whatever the order in which the callers
\* are visited.
C24_Stated ==
    EdgesCollected =>
       \A i \in DOMAIN edges_out.edges :
          DenotedCallees(i) = ReachableCallees(edges_out.edges_map, edges_out.edges[i].caller)

\* the method instances reachable from those of R by following back-edge lists
RECURSIVE BackedgeClosure(_, _)
BackedgeClosure(g, R) ==
    LET more == R \cup UNION {Range(g[m].backedges) : m \in R}
    IN  IF more = R THEN R ELSE BackedgeClosure(g, more)
\* a method instance that is precompiled or whose module is in the worklist
\* is reachable from m
LinksBack(g, m) == \E x \in BackedgeClosure(g, {m}) : g[x].precompiled \/ g[x].in_worklist
\* m is external and has relocatable code
Queueable(g, m) ==
    /\ g[m].is_method
    /\ ~g[m].in_worklist
    /\ \E k \in DOMAIN g[m].relocatability : g[m].relocatability[k] # 0

\* C25 Whether a newly-inferred external method instance with relocatable
\* code is queued depends only on whether a precompiled or worklist method
\* instance is reachable from it over back-edges, for cyclic graphs as well,
\* and not on its position in the newly-inferred list.
C25_Stated ==
    EdgesCollected =>
       LET ss == save_in.session
       IN  external_mis = {m \in Range(ss.newly_inferred) : Queueable(ss.g, m) /\ LinksBack(ss.g, m)}

EmitEligible(m) == save_in.session.g[m].in_worklist \/ m \in external_mis

\* C27 Every method instance that is in the worklist or in the queued set and
\* has a callee recorded in the edges map appears as a caller in the edges
\* array written to the cache, with all of its external callees, so that a
\* load verifies all of them before it promotes a code instance of the caller.
C27_Stated ==
    EdgesCollected =>
       \A m \in DOMAIN edges_out.edges_map :
          EmitEligible(m) =>
             \E i \in DOMAIN edges_out.edges :
                /\ edges_out.edges[i].caller = m
                /\ ReachableCallees(edges_out.edges_map, m) \subseteq DenotedCallees(i)

\* a load has returned that decoded its payload
LoadDecoded == pc = "done" /\ "decode" \in {passes[i] : i \in DOMAIN passes}
\* the validate flag that the save wrote for code instance c
ValidateFlag(c) == f.p.chain[c[1]][c[2]]

\* C28 as stated: on load a code instance receives min_world = the current
\* world counter exactly when its validate flag was cleared during save.
C28_Stated ==
    LoadDecoded =>
       \A c \in DecodedCIs(f.p) : (ci[c].min_world = jl_world_counter) <=> ~ValidateFlag(c)

\* C28 On load a code instance receives min_world = the current world
\* counter exactly when its validate flag was set during save; a code
\* instance saved with the flag cleared keeps the min_world of the zeroed
\* object it was decoded into, 0.
C28_StampedWhenFlagSet ==
    LoadDecoded =>
       \A c \in DecodedCIs(f.p) :
          /\ (ci[c].min_world = jl_world_counter) <=> ValidateFlag(c)
          /\ ~ValidateFlag(c) => ci[c].min_world = 0

\* a load has decoded a code instance with the flag set, which it promoted,
\* and one with the flag cleared
C28_Witness ==
    /\ LoadDecoded
    /\ \E c, d \in DecodedCIs(f.p) :
          /\ ValidateFlag(c) /\ ci[c].min_world = jl_world_counter /\ ci[c].max_world = WorldInf
          /\ ~ValidateFlag(d) /\ ci[d].min_world = 0 /\ ci[d].max_world = 0

\* what jl_insert_method_instances did for the i-th queued method instance,
\* whose live specialization is another object
MergedInto(i) ==
    LET m == f.p.mi_list[i]
        milive == uniquing'[m]
        moved == ChainFrom(ci, mi[m].cache)
        cilive == mi[milive].cache
        before == mi[milive].backedges
        after == mi'[milive].backedges
    IN  IF rt.dispatch_changed[m]
        THEN /\ mi_valid'[i] = 0
             /\ Range(moved) \cap new_code_instance_validate' = {}
             /\ mi'[milive] = mi[milive]
             /\ \A c \in Range(moved) : ci'[c].def = m
        ELSE /\ mi_valid'[i] = 1
             /\ Range(after) = Range(before) \cup
                                  {IF b \in DOMAIN uniquing' THEN uniquing'[b] ELSE b :
                                      b \in Range(mi'[m].backedges)}
             /\ IsInjective(after)
             /\ SubSeq(after, 1, Len(before)) = before
             /\ IF cilive = NoCI \/ ci[cilive].max_world < WorldInf
                THEN /\ ChainFrom(ci', mi'[milive].cache) = moved \o ChainFrom(ci, cilive)
                     /\ \A c \in Range(moved) : ci'[c].def = milive
                ELSE /\ mi'[milive].cache = cilive
                     /\ ChainFrom(ci', cilive) = ChainFrom(ci, cilive)
                     /\ \A c \in Range(moved) : ci'[c].def = m

\* C29 For each queued method instance mi whose live specialization milive
\* differs from mi: if mi no longer dispatches to its method it is marked
\* invalid, its code instances leave the validation set and nothing of mi is
\* merged into milive; otherwise milive's back-edge list becomes the
\* duplicate-free union of its entries and the live images of mi's
\* back-edges, and mi's chain is moved in front of milive's chain, with def
\* set to milive, exactly when milive has no cache or a world-limited one.
C29_MergeIntoLive ==
    [][pc = "jl_insert_method_instances" =>
          \A i \in DOMAIN f.p.mi_list :
             uniquing'[f.p.mi_list[i]] # f.p.mi_list[i] => MergedInto(i)]_vars

\* a queued method instance was merged into a live specialization that had a
\* caller of its own: one of its back-edges was there already, one was added,
\* and its chain was moved in front of the live one
C29_Witness ==
    /\ "jl_insert_method_instances" \in {passes[i] : i \in DOMAIN passes}
    /\ 1 \in DOMAIN uniquing /\ uniquing[1] = LiveOf(1)
    /\ ~rt.dispatch_changed[1]
    /\ rt.live_backedges[1] # <<>>
    /\ \E b \in Range(f.p.mi_backedges[1]) :
          b \in DOMAIN uniquing /\ uniquing[b] \in Range(rt.live_backedges[1])
    /\ Len(mi[LiveOf(1)].backedges) > Len(rt.live_backedges[1])
    /\ mi[LiveOf(1)].cache = <<1, 1>>
    /\ ci[<<1, 1>>].def = LiveOf(1)

\* the code instances of a chain that jl_serialize_code_instance does not
\* write when it may skip: those with a PartialOpaque constant return type
\* whose return type would be written
UncacheableCI(c) ==
    LET fld == CodeInstFields(c.attr)
    IN  (fld.max_world = WorldInf \/ fld.min_world = 0) /\ fld.rettype_const = "PartialOpaque"
\* the method instances of the worklist, and the code instances that the
\* worklist holds directly, for which skipping is disabled
SavedMIs == {v \in Range(save_in.roots[1].kids) : v.kind = "MethodInstance"}
DirectCIs == {v \in Range(save_in.roots[1].kids) : v.kind = "CodeInstance"}
\* the ids of the code instances of chain as the stream writes them, in order
WrittenOf(chain) ==
    LET ids == {chain[k].id : k \in DOMAIN chain}
        toks == SelectSeq(stream, LAMBDA t : t.tag = "TAG_CODE_INSTANCE" /\ t.a \in ids)
    IN  [k \in DOMAIN toks |-> toks[k].a]
\* those the load decodes, in order
DecodedOf(chain) ==
    LET ids == {chain[k].id : k \in DOMAIN chain}
        keys == SelectSeq(backref_list, LAMBDA e : e[1] = "CodeInstance" /\ e[2] \in ids)
    IN  [k \in DOMAIN keys |-> keys[k][2]]
\* the ids of the entries of chain that can be cached, in order
CacheableOf(chain) ==
    LET kept == SelectSeq(chain, LAMBDA c : ~UncacheableCI(c))
    IN  [k \in DOMAIN kept |-> kept[k].id]

\* C30 When a code-instance chain is serialized, every entry whose
\* PartialOpaque constant return type cannot be cached is left out and the
\* chain continues with the next entry, the remaining entries keeping their
\* order and links on load; the save fails with an error when skipping is
\* disabled and no entry of the chain is cacheable, and only then.
C30_Stated ==
    /\ SaveSerialized =>
          \A v \in SavedMIs :
             v.attr = "worklist" =>
                /\ WrittenOf(v.kids) = CacheableOf(v.kids)
                /\ load_status = "decoded" => DecodedOf(v.kids) = CacheableOf(v.kids)
    /\ save_pc = "thrown" /\ (\A v \in SaveReaches : ~Uncacheable(v)) =>
          \E c \in DirectCIs : \A k \in DOMAIN (<<c>> \o c.kids) : UncacheableCI((<<c>> \o c.kids)[k])
    /\ SaveSerialized =>
          \A c \in DirectCIs : \E k \in DOMAIN (<<c>> \o c.kids) : ~UncacheableCI((<<c>> \o c.kids)[k])
(***************************************************************************)
(* The flag bit of a stored position.                                       *)
(***************************************************************************)
\* the objects jl_serialize_datatype and jl_serialize_value_ flag
Flagged(v) ==
    \/ v.kind = "DataType" /\ DatatypeTag(DatatypeProps(v.attr)) = 12
    \/ v.kind = "Method" /\ v.attr \notin {"internal", "opaque_closure"}
    \/ v.kind = "MethodInstance" /\ v.attr # "opaque_closure" /\ MIInternal(MIProps(v.attr)) = 0
    \/ v.kind = "Singleton" /\ ~type_in_worklist(DatatypeProps(v.kids[1].attr))
\* backref_table as the serializer left it
TableWritten == IF save_pc = "saved" THEN saved.backref_table ELSE backref_table
\* the flagged back references the decoder read for a field
FlaggedIntoField ==
    SelectSeq(DecodedStream.refs,
              LAMBDA r : r.word % 2 = 1 /\ r.loc \notin {NullLoc, NotFoundLoc})

\* C31: once the values are serialized, the stored value of an object has its
\* low bit set exactly when the object is a type of sub-tag 12, a method
\* without METHOD_INTERNAL, a method instance of internal code 0 or a singleton
\* instance of a type outside the worklist; every back reference in the stream
\* is the stored value of an object, bit included; and the load has added to
\* flagref_list one entry (loc, -1) for each flagged back reference read for a
\* field, in the order read, and none for another back reference
C31_FlagBit ==
    /\ SaveSerialized =>
          /\ \A v \in SaveReaches :
                Key(v) \in DOMAIN TableWritten =>
                   (TableWritten[Key(v)] % 2 = 1 <=> Flagged(v))
          /\ \A i \in DOMAIN stream :
                stream[i].tag \in BackrefTags =>
                   \E k \in DOMAIN TableWritten : TableWritten[k] = stream[i].a
    /\ load_status = "decoded" =>
          SelectSeq(flagref_list, LAMBDA e : e.pos = 0 - 1)
             = [j \in 1 .. Len(FlaggedIntoField) |->
                  [loc |-> FlaggedIntoField[j].loc, pos |-> 0 - 1]]

\* a load has read a flagged back reference for a field and another for no
\* field, of objects of two kinds
C31_Witness ==
    /\ load_status = "decoded"
    /\ \E r1, r2 \in Range(DecodedStream.refs) :
          /\ r1.word % 2 = 1 /\ r1.loc \notin {NullLoc, NotFoundLoc}
          /\ r2.word % 2 = 1 /\ r2.loc = NotFoundLoc
          /\ r1.bp[1] # r2.bp[1]
    /\ \E e \in Range(flagref_list) : e.pos = 0 - 1

(***************************************************************************)
(* Modules.                                                                 *)
(***************************************************************************)
\* the (position, action) entries the save has recorded: reinit_list, and
\* once the file is closed the words of the trailer
ReinitWritten ==
    IF save_pc = "saved"
    THEN LET w == SelectSeq(stream, LAMBDA t : t.tag = "int32")
         IN  [k \in 1 .. ((Len(w) - 1) \div 2) |-> [pos |-> w[2 * k - 1].a, how |-> w[2 * k].a]]
    ELSE reinit_list
\* the modules the serializer entered in backref_table
ModulesWritten ==
    {v \in SaveReaches : v.kind = "Module" /\ Key(v) \in DOMAIN TableWritten}
HasReinsertEntry(v) ==
    \E k \in DOMAIN ReinitWritten :
        ReinitWritten[k].how = 2 /\ ReinitWritten[k].pos = TableWritten[Key(v)] \div 2
\* what the decoder makes of a reference to the module m
ModuleImage(m) ==
    IF m.attr = "external_top"
    THEN <<"LoadedModule", ModuleRank(save_in.mod_array, m) + 1>>
    ELSE Key(m)
\* the reinsertion of module id raises an error in the loading session
ReinsertRaises(id) ==
    \/ rt.existing[id] \in {"value", "unwritable"}
    \/ rt.existing[id] = "module" /\ rt.incremental
\* the entries of action 2 have been replayed as they should: the binding of
\* the parent under the name of the module holds the module, unless the
\* reinsertion raised an error, which was caught
ReinsertReplayed ==
    load_status = "finalized" =>
       /\ Len(reinit_done) = Len(ReinitWritten)
       /\ \A v \in ModulesWritten :
             HasReinsertEntry(v) /\ v.kids # <<>> =>
                \E k \in DOMAIN reinit_done :
                   /\ reinit_done[k].how = 2
                   /\ reinit_done[k].v = Key(v)
                   /\ IF ReinsertRaises(v.id)
                      THEN reinit_done[k].outcome = "caught" /\ reinit_done[k].bound = <<>>
                      ELSE /\ reinit_done[k].outcome = "done"
                           /\ reinit_done[k].bound =
                                 <<[parent |-> ModuleImage(v.kids[1]),
                                    name |-> Key(ModuleName(v)), value |-> Key(v)]>>

\* C32 as stated: an entry of action 2 is recorded for a module exactly when
\* the module and its parent are in the worklist, and replaying it makes the
\* binding of the parent hold the module
C32_Stated ==
    /\ SaveSerialized =>
          \A v \in ModulesWritten :
             HasReinsertEntry(v) <=> (ModuleProps(v.attr).in_worklist
                                        /\ ModuleProps(v.attr).parent_in_worklist)
    /\ load_status = "finalized" =>
          \A k \in DOMAIN reinit_done :
             reinit_done[k].how = 2 => reinit_done[k].bound # <<>>

\* C32: an entry of action 2 is recorded for a module exactly when the module
\* is in the worklist and its parent is not, and replaying the entry makes the
\* binding of the parent under the name of the module hold the restored
\* module, unless the reinsertion raises an error, which is caught and leaves
\* the binding as it was
C32_ReinsertUnderExternalParent ==
    /\ SaveSerialized =>
          \A v \in ModulesWritten :
             HasReinsertEntry(v) <=> (ModuleProps(v.attr).in_worklist
                                        /\ ~ModuleProps(v.attr).parent_in_worklist)
    /\ ReinsertReplayed

\* a load has replayed the entry of a module under a loaded package, next to a
\* worklist module that has no entry
C32_Witness ==
    /\ load_status = "finalized"
    /\ \E k \in DOMAIN reinit_done :
          /\ reinit_done[k].how = 2
          /\ reinit_done[k].bound # <<>>
          /\ reinit_done[k].bound[1].parent[1] = "LoadedModule"
    /\ \E v \in ModulesWritten : ModuleProps(v.attr).in_worklist /\ ~HasReinsertEntry(v)

\* the index written for the external top-level module m: the word behind
\* the byte 2 that follows its tag and name
IndexWritten(m) ==
    LET at == {i \in DOMAIN stream : stream[i] = Tok("TAG_MODULE", m.id)}
        i  == CHOOSE h \in at : \A g \in at : h <= g
        ix == {k \in (i + 1) .. Len(stream) : stream[k].tag = "index"}
        k  == CHOOSE h \in ix : \A g \in ix : h <= g
    IN  IF at = {} \/ ix = {} THEN 0 - 1
        ELSE IF stream[k - 1] = Tok("ref_only", 2) THEN stream[k].a ELSE 0 - 1
\* the modules of the array a that are not in the worklist, in array order
NonWorklist(a) == SelectSeq(a, LAMBDA h : ~ModuleProps(h.attr).in_worklist)
ExternalTopWritten == {m \in ModulesWritten : m.attr = "external_top"}

\* C33: the index written for an external top-level module is its rank among
\* the modules of the loaded-modules array that are not in the worklist, the
\* number of its entry in the manifest written from that array, and on load
\* the index resolves to the module of the loading session that was checked
\* against that entry: it has the name, the UUID and the build-id of the entry
C33_ModuleIndex ==
    /\ SaveSerialized =>
          \A m \in ExternalTopWritten :
             LET j == IndexWritten(m)
             IN  /\ j >= 0
                 /\ j < Len(NonWorklist(save_in.mod_array))
                 /\ Key(NonWorklist(save_in.mod_array)[j + 1]) = Key(m)
                 /\ write_mod_list(save_in.mod_array)[j + 1] = ModInfo(m)
    /\ load_status \in {"decoded", "finalized"} =>
          \A m \in ExternalTopWritten :
             LET j == IndexWritten(m)
             IN  /\ backref_list[TableWritten[Key(m)] \div 2 + 1] = <<"LoadedModule", j + 1>>
                 /\ rt.mod_array[j + 1].name = ModInfo(m).name
                 /\ rt.mod_array[j + 1].uuid = ModInfo(m).uuid
                 /\ rt.mod_array[j + 1].build_id = ModInfo(m).build_id

\* a load has resolved a module that stands third in the array of the saving
\* session, behind a worklist module, and second in the manifest
C33_Witness ==
    /\ load_status = "decoded"
    /\ \E m \in ExternalTopWritten :
          /\ IndexWritten(m) = 1
          /\ Key(save_in.mod_array[3]) = Key(m)
          /\ ModuleProps(save_in.mod_array[1].attr).in_worklist
          /\ backref_list[TableWritten[Key(m)] \div 2 + 1] = <<"LoadedModule", 2>>

(***************************************************************************)
(* Back-edges of the method instances that are written.                     *)
(***************************************************************************)
\* where the method instance m of the session starts in the stream, 0 if it
\* was not written
WrittenAt(m) ==
    LET at == {i \in DOMAIN stream : stream[i] = Tok("TAG_METHOD_INSTANCE", m)}
    IN  IF at = {} THEN 0 ELSE CHOOSE i \in at : TRUE
\* the byte behind the tag of m
InternalWritten(m) == stream[WrittenAt(m) + 1].a
\* the back-edge field of m as a reader of the stream finds it: NULL, or the
\* method instances of an array in the order of the array
BackedgesWritten(m) ==
    LET v  == <<"MethodInstance", m>>
        d0 == [DecodedStream EXCEPT !.i = WrittenAt(m) + 2]
        d1 == DeserializeN(stream, d0, v, 1, IF InternalWritten(m) = 1 THEN 3 ELSE 2)
        d2 == DeserializeN(stream, d1, v, 4, 1)
        t  == stream[d2.i]
        a1 == jl_deserialize_value(stream, At([d2 EXCEPT !.i = @ + 1], NullLoc))
        a2 == jl_deserialize_value(stream, At(a1, NullLoc))
    IN  IF t.tag = "TAG_NULL" THEN <<"NULL">>
        ELSE IF t.tag # "TAG_ARRAY1D" THEN <<"other">>
        ELSE <<"Array", [j \in 1 .. a1.val[2] |->
                            DeserializeN(stream, a2, <<"Array", t.a>>, 1, j).val[2]]>>
\* the method instances queue_external_mis queued in the save
QueuedInSave ==
    queue_external_mis(save_in.session.g, save_in.session.newly_inferred, {}).external_mis
\* the callers m had when the save began that are in a worklist module or queued
CallersKept(m) ==
    SelectSeq(save_in.session.g[m].backedges,
              LAMBDA b : save_in.session.g[b].in_worklist \/ b \in QueuedInSave)

\* C34: the back-edge list written for a method instance with a code other
\* than 0 is the subsequence of its callers that are in a worklist module or
\* queued, in their order, NULL when there is none, and the back-edge array of
\* the session holds the same entries once the method instance is written
C34_BackedgesFiltered ==
    SaveSerialized =>
       \A m \in SMIs :
          WrittenAt(m) # 0 /\ InternalWritten(m) # 0 =>
             /\ BackedgesWritten(m) = IF CallersKept(m) = <<>> THEN <<"NULL">>
                                      ELSE <<"Array", CallersKept(m)>>
             /\ save_in.live[m] = CallersKept(m)

\* a queued method instance was written with one of its two callers, and the
\* array of the session has lost the other
C34_Witness ==
    /\ save_pc = "saved"
    /\ \E m \in SMIs :
          /\ WrittenAt(m) # 0
          /\ InternalWritten(m) = 3
          /\ Len(save_in.session.g[m].backedges) = 2
          /\ Len(CallersKept(m)) = 1
          /\ CallersKept(m)[1] = save_in.session.g[m].backedges[2]
          /\ save_in.live[m] = CallersKept(m)
          /\ BackedgesWritten(m) = <<"Array", CallersKept(m)>>

(***************************************************************************)
(* Methods of modules outside the worklist.                                 *)
(***************************************************************************)
ExternalMethodsWritten ==
    {v \in SaveReaches : v.kind = "Method" /\ v.attr = "external"
                            /\ Key(v) \in DOMAIN TableWritten}
MethodAt(v) ==
    LET at == {i \in DOMAIN stream : stream[i] = Tok("TAG_METHOD", v.id)}
    IN  CHOOSE i \in at : TRUE
\* the key of the worklist of the save
SaveKey == jl_worklist_key(save_in.roots[1])
\* the roots of v whose block of the run-length table has the key of the
\* worklist, in root order
NewRootsOf(v) ==
    LET at == {i \in 1 .. Len(MethodRoots(v)) : RootKeyAt(MethodBlocks(v), i - 1) = SaveKey}
    IN  SelectSeq([i \in 1 .. Len(MethodRoots(v)) |->
                      IF i \in at THEN MethodRoots(v)[i] ELSE NullVal],
                  LAMBDA r : r # NullVal)
\* the token t stands for the symbol r: the symbol itself, or a back reference
\* to its position
IsRootToken(t, r) ==
    \/ t = Tok("TAG_SYMBOL", r.id)
    \/ t.tag \in {"TAG_BACKREF", "TAG_SHORT_BACKREF"}
          /\ t.a \div 2 = TableWritten[Key(r)] \div 2
\* where a reader that starts at the tag of v stands when it has read v
MethodEnd(v) ==
    jl_deserialize_value(stream,
        At([Dec(MethodAt(v), [k \in 1 .. Len(stream) + 1 |-> <<"any", 0>>], Key(NullVal), "")
               EXCEPT !.loaded_modules_array = rt.mod_array], Field(<<"Array", 1>>, 1)))

QueuedMethods == {<<"method", k>> : k \in {h \in 1 .. Len(f.p.objs) : f.p.objs[h] = "method"}}
\* what the root c of the payload holds once every object is recached
RootRecached(c) ==
    LET o == f.p.slots[c.slot]
    IN  IF c.slot = 0 THEN c.val
        ELSE IF o[1] \in {"method", "mi"} THEN LiveObj(o)
        ELSE IF o[1] = "datatype"
             THEN (IF o[2] \in rt.cached THEN LiveObj(o) ELSE o)
        ELSE IF TypeOf(o)[2] \in rt.cached THEN InstanceOf(LiveObj(TypeOf(o))) ELSE o

\* C36: once jl_copy_roots has run, the method of the session that stands for
\* a decoded method with new roots was given these roots in their order, each
\* as its image in uniquing_table if it has one, under the key of the file put
\* together from its halves, and nothing else was appended; jl_copy_roots
\* starts when jl_recache_other has emptied flagref_list and entered every
\* flagged method and method instance in uniquing_table
C36_RootsCopied ==
    /\ "jl_copy_roots" \in Range(passes) =>
          /\ DOMAIN appended_roots = {LiveObj(m) : m \in QueuedMethods}
          /\ \A m \in QueuedMethods :
                appended_roots[LiveObj(m)] =
                   <<[key   |-> f.p.key,
                      roots |-> [j \in 1 .. Len(f.p.newroots[m[2]]) |->
                                    RootRecached(f.p.newroots[m[2]][j])]]>>
    /\ "jl_copy_roots" \notin Range(passes) => appended_roots = <<>>
    /\ pc = "jl_copy_roots" =>
          /\ "jl_recache_other" \in Range(passes)
          /\ flagref_list = <<>>
          /\ \A k \in 1 .. Len(f.p.objs) :
                f.p.objs[k] \in {"method", "mi"} => <<f.p.objs[k], k>> \in DOMAIN uniquing_table

\* a method was given a symbol, the type of the session in place of a type
\* decoded into a root, and the method of the session for a flagged back
\* reference
C36_Witness ==
    /\ "jl_copy_roots" \in Range(passes)
    /\ \E m \in QueuedMethods :
          /\ LiveObj(m) \in DOMAIN appended_roots
          /\ Len(appended_roots[LiveObj(m)][1].roots) = 3
          /\ appended_roots[LiveObj(m)][1].roots[1] = <<"symbol", 0>>
          /\ appended_roots[LiveObj(m)][1].roots[2] = LiveObj(<<"datatype", m[2] + 1>>)
          /\ appended_roots[LiveObj(m)][1].roots[3][1] = "method"
          /\ appended_roots[LiveObj(m)][1].roots[3][2] < 0
          /\ appended_roots[LiveObj(m)][1].key = <<WorklistBuildHi, WorklistBuildLo>>

(***************************************************************************)
(* The types a load recaches.                                               *)
(***************************************************************************)
\* the placeholder types of the payload
FlaggedTypes == {<<"datatype", k>> : k \in {h \in 1 .. Len(f.p.objs) : f.p.objs[h] = "datatype"}}
\* the type that stands for the placeholder dt: the type the session holds,
\* or dt if it holds none
Canonical(dt) == IF dt[2] \in rt.cached THEN LiveObj(dt) ELSE dt
\* what a location that held the decoded object o is to hold
CanonicalImage(o) ==
    IF o[1] = "datatype" THEN Canonical(o)
    ELSE IF Canonical(TypeOf(o)) = TypeOf(o) THEN o
    ELSE InstanceOf(Canonical(TypeOf(o)))
\* jl_recache_types has run and uniquing_table is not freed yet
TypesRecached ==
    pc \in {"jl_insert_methods", "jl_recache_other", "jl_copy_roots",
            "jl_insert_method_instances", "jl_finalize_deserializer"}

\* C37: recache_datatype gives a placeholder type the type the cache holds
\* for it, or the placeholder itself, which it then enters in the cache; a
\* second application to the placeholder or to the result gives the same
\* type and changes nothing; after jl_recache_types the locations recorded
\* for a placeholder or its instance hold the canonical type or its instance,
\* and exactly the placeholders that were replaced carry the poison tag
C37_CanonicalType ==
    /\ pc = "jl_recache_types" =>
          \A dt \in FlaggedTypes :
             LET r1 == recache_datatype(FlagHeap, dt)
                 r2 == recache_datatype(r1.h, dt)
                 r3 == recache_datatype(r1.h, r1.t)
             IN  /\ r1.t = Canonical(dt)
                 /\ r1.t = dt => dt \in r1.h.type_cache
                 /\ r2.t = r1.t /\ r2.h = r1.h
                 /\ r3.t = r1.t /\ r3.h = r1.h
    /\ TypesRecached =>
          /\ \A dt \in FlaggedTypes :
                /\ uniquing_table[dt] = Canonical(dt)
                /\ Canonical(dt) = dt => dt \in type_cache
                /\ recache_datatype(FlagHeap, dt).t = Canonical(dt)
                /\ recache_datatype(FlagHeap, Canonical(dt)).t = Canonical(dt)
                /\ IF Canonical(dt) # dt
                   THEN dt \in DOMAIN type_tags /\ type_tags[dt] = PoisonType
                   ELSE dt \notin DOMAIN type_tags
          /\ \A i \in 1 .. Len(f.p.flagrefs) :
                LET e == f.p.flagrefs[i]
                    o == DecodedObj(e)
                IN  o[1] \in {"datatype", "singleton"} =>
                       /\ e.loc # 0 => slots[e.loc] = CanonicalImage(o)
                       /\ e.offs > 0 => backref_list[e.offs + 1] = CanonicalImage(o)

\* a placeholder with an instance was replaced by the type of the session and
\* both are poisoned, and a type with a placeholder among its parameters was
\* entered in the type cache
C37_Witness ==
    /\ pc = "jl_recache_other"
    /\ \E a, b \in FlaggedTypes :
          /\ uniquing_table[a] = LiveObj(a)
          /\ type_tags[a] = PoisonType
          /\ HasInstance(f.p.objs, a)
          /\ type_tags[InstanceOf(a)] = PoisonInstance
          /\ slots[a[2] - 1] = InstanceOf(LiveObj(a))
          /\ uniquing_table[b] = b
          /\ b \in type_cache
          /\ Len(f.p.params[b[2]]) = 2


(***************************************************************************)
(* The bytes of the file header: write_work_list, write_dependency_list,   *)
(* write_mod_list, the serialized values and the source text, and the      *)
(* reader that skips to the list of required modules.                      *)
(***************************************************************************)
\* the bytes of write_header, of the serialized values, and of one source file
HeaderLen == 3
BodyLen == 2
SrcLen == 1
\* the most dependencies and the longest name that are tried
MaxDeps == 2
MaxName == 2

\* one byte of the file: the first byte of a field carries the kind and the
\* value of the field; sec names the part of the file that wrote the byte
IoCell(t, v, sec) == [t |-> t, v |-> v, sec |-> sec]
IoField(t, v, n, sec) ==
    [i \in 1 .. n |-> IF i = 1 THEN IoCell(t, v, sec) ELSE IoCell("..", 0, sec)]

\* ios_write at the position of the stream: overwrites, and grows the file
ios_write(s, cells) ==
    LET n == Len(cells)
        end == IF s.pos + n > Len(s.buf) THEN s.pos + n ELSE Len(s.buf)
    IN  [s EXCEPT !.buf = [i \in 1 .. end |->
                             IF i > s.pos /\ i <= s.pos + n THEN cells[i - s.pos]
                             ELSE s.buf[i]],
                  !.pos = s.pos + n]
ios_pos(s) == s.pos
ios_seek(s, p) == [s EXCEPT !.pos = p]
ios_seek_end(s) == [s EXCEPT !.pos = Len(s.buf)]
ios_skip(s, n) == [s EXCEPT !.pos = @ + n]
Within(s, sec) == [s EXCEPT !.sec = sec]

write_chars(s, n) == ios_write(s, [i \in 1 .. n |-> IoCell("chr", 0, s.sec)])
write_int32(s, v) == ios_write(s, IoField("i32", v, 4, s.sec))
write_int64(s, v) == ios_write(s, IoField("i64", v, 8, s.sec))
write_uint64(s, v) == ios_write(s, IoField("u64", v, 8, s.sec))
write_float64(s) == ios_write(s, IoField("f64", 0, 8, s.sec))
\* the value of the field that starts at the position of the stream
FieldAt(s) == IF s.pos < Len(s.buf) THEN s.buf[s.pos + 1].v ELSE 0

\* the name, the uuid and the build id of each module of the list
RECURSIVE WriteModInfos(_, _, _)
WriteModInfos(s, names, i) ==
    IF i > Len(names) THEN write_int32(s, 0)
    ELSE WriteModInfos(write_uint64(write_uint64(write_uint64(
                           write_chars(write_int32(s, names[i]), names[i]), 0), 0), 0),
                       names, i + 1)

\* the names of the modules between the toplevel module and depmod
RECURSIVE write_module_path(_, _, _)
write_module_path(s, depth, slen) ==
    IF depth = 0 THEN s
    ELSE write_chars(write_int32(write_module_path(s, depth - 1, slen), slen), slen)

\* how far below a toplevel module of the worklist the module of a dependency
\* is; the other modules are not provided by the worklist
DepOwners == {"main", "other", "top", "sub"}
DepDepth(owner) == IF owner = "sub" THEN 1 ELSE 0

RECURSIVE WriteDeps(_, _, _)
WriteDeps(s, udeps, i) ==
    IF i > Len(udeps) THEN write_int32(s, 0)
    ELSE LET dep == udeps[i]
             s1 == write_float64(write_chars(write_int32(s, dep.slen), dep.slen))
             s2 == IF dep.owner \in {"top", "sub"}
                   THEN write_module_path(write_int32(s1, 1), DepDepth(dep.owner), MaxName)
                   ELSE s1
         IN  WriteDeps(write_int32(s2, 0), udeps, i + 1)

\* the preferences could not be computed
NullPrefs == <<0 - 1>>
RECURSIVE WritePrefNames(_, _, _)
WritePrefNames(s, prefs, i) ==
    IF i > Len(prefs) THEN s
    ELSE WritePrefNames(write_chars(write_int32(s, prefs[i]), prefs[i]), prefs, i + 1)
WritePrefs(s, prefs) ==
    IF prefs # NullPrefs
    THEN write_uint64(write_int32(WritePrefNames(s, prefs, 1), 0), 1)
    ELSE write_uint64(write_int32(s, 0), 0)

\* a variant that leaves the length field out of the length
BlockLengthInner(pos, initial_pos) == pos - initial_pos - 8
\* the length stored at the head of the block
BlockLength(pos, initial_pos) == pos - initial_pos

\* there is no Base._require_dependencies
NullDeps == [exists |-> FALSE, list |-> <<>>]
\* the stream after write_dependency_list, and the position it returns
write_dependency_list(s, udeps, prefs) ==
    LET initial_pos == ios_pos(s)
        s1 == write_uint64(s, 0)
        s2 == WritePrefs(WriteDeps(s1, udeps.list, 1), prefs)
        pos == ios_pos(s2)
        s3 == write_uint64(ios_seek(s2, initial_pos), BlockLength(pos, initial_pos))
        s4 == write_int64(ios_seek(s3, pos), 0)
    IN  IF udeps # NullDeps THEN [s |-> s4, pos |-> pos] ELSE [s |-> s1, pos |-> 0]

\* the source text of the dependencies that are Julia code and can be read
RECURSIVE WriteSrcTexts(_, _, _, _)
WriteSrcTexts(s, udeps, readable, i) ==
    IF i > Len(udeps) THEN s
    ELSE LET dep == udeps[i]
             s1 == write_chars(write_int32(s, dep.slen), dep.slen)
             posfile == ios_pos(s1)
             s2 == write_chars(write_uint64(s1, 0), SrcLen)
             s3 == ios_seek_end(write_uint64(ios_seek(s2, posfile), SrcLen))
         IN  WriteSrcTexts(IF dep.owner # "main" /\ dep.slen # 0 /\ readable THEN s3 ELSE s,
                           udeps, readable, i + 1)
\* the end of jl_save_incremental: patches the pointer and appends the text
WriteSrcText(s, udeps, readable, srctextpos) ==
    LET posfile == ios_pos(s)
        s1 == ios_seek_end(Within(write_int64(ios_seek(Within(s, "deps"), srctextpos), posfile),
                                  s.sec))
    IN  write_int32(IF udeps # NullDeps THEN WriteSrcTexts(s1, udeps.list, readable, 1) ELSE s, 0)

\* skips the list of the worklist's modules
RECURSIVE SkipModList(_)
SkipModList(s) ==
    LET len == FieldAt(s)
        s1 == ios_skip(s, 4)
    IN  IF len = 0 THEN s1 ELSE SkipModList(ios_skip(s1, len + 3 * 8))
\* skips the dependency list
SkipDeps(s) ==
    LET deplen == FieldAt(s)
    IN  ios_skip(ios_skip(s, 8), deplen)

\* the dependency lists, preference lists and module lists that are tried
Deps == [slen : {0, MaxName}, owner : DepOwners]
DepLists ==
    {NullDeps} \cup {[exists |-> TRUE, list |-> l] : l \in UNION {[1 .. n -> Deps] : n \in 0 .. MaxDeps}}
PrefLists == {NullPrefs, <<>>, <<1>>, <<MaxName, 1>>}
NameLists == {<<1>>, <<MaxName, 1>>}

JiWriteHeader ==
    /\ ji.pc = "write_header"
    /\ ji' = [ji EXCEPT !.pc = "write_work_list",
                        !.w = write_chars(Within(@, "header"), HeaderLen)]
    /\ UNCHANGED <<wire, type_cache, type_tags, appended_roots, f, rt, jl_world_counter,
                   gc_enabled, finalizers_inhibited, serializer_worklist, pc, en, ret, tables,
                   new_code_instance_validate, flagref_list, ci, mi, uniquing, uniquing_table,
                   slots, methods, mi_valid, specializations, mt_defs, valids,
                   callee_backedges, mt_backedges, reinit_done, passes, entry,
                   queued_method_roots, calls>>
    /\ UNCHANGED savevars

JiWriteWorkList ==
    /\ ji.pc = "write_work_list"
    /\ ji' = [ji EXCEPT !.pc = "write_dependency_list",
                        !.w = WriteModInfos(Within(@, "work_list"), ji.worklist, 1)]
    /\ UNCHANGED <<wire, type_cache, type_tags, appended_roots, f, rt, jl_world_counter,
                   gc_enabled, finalizers_inhibited, serializer_worklist, pc, en, ret, tables,
                   new_code_instance_validate, flagref_list, ci, mi, uniquing, uniquing_table,
                   slots, methods, mi_valid, specializations, mt_defs, valids,
                   callee_backedges, mt_backedges, reinit_done, passes, entry,
                   queued_method_roots, calls>>
    /\ UNCHANGED savevars

JiWriteDependencyList ==
    /\ ji.pc = "write_dependency_list"
    /\ LET r == write_dependency_list(Within(ji.w, "deps"), ji.udeps, ji.prefs)
       IN  ji' = [ji EXCEPT !.pc = "write_mod_list", !.w = r.s, !.srctextpos = r.pos]
    /\ UNCHANGED <<wire, type_cache, type_tags, appended_roots, f, rt, jl_world_counter,
                   gc_enabled, finalizers_inhibited, serializer_worklist, pc, en, ret, tables,
                   new_code_instance_validate, flagref_list, ci, mi, uniquing, uniquing_table,
                   slots, methods, mi_valid, specializations, mt_defs, valids,
                   callee_backedges, mt_backedges, reinit_done, passes, entry,
                   queued_method_roots, calls>>
    /\ UNCHANGED savevars

JiWriteModList ==
    /\ ji.pc = "write_mod_list"
    /\ ji' = [ji EXCEPT !.pc = "serialize",
                        !.w = WriteModInfos(Within(@, "mod_list"), ji.mod_array, 1)]
    /\ UNCHANGED <<wire, type_cache, type_tags, appended_roots, f, rt, jl_world_counter,
                   gc_enabled, finalizers_inhibited, serializer_worklist, pc, en, ret, tables,
                   new_code_instance_validate, flagref_list, ci, mi, uniquing, uniquing_table,
                   slots, methods, mi_valid, specializations, mt_defs, valids,
                   callee_backedges, mt_backedges, reinit_done, passes, entry,
                   queued_method_roots, calls>>
    /\ UNCHANGED savevars

\* the serialized values
JiSerialize ==
    /\ ji.pc = "serialize"
    /\ ji' = [ji EXCEPT !.pc = "srctext",
                        !.w = write_chars(Within(@, "values"), BodyLen)]
    /\ UNCHANGED <<wire, type_cache, type_tags, appended_roots, f, rt, jl_world_counter,
                   gc_enabled, finalizers_inhibited, serializer_worklist, pc, en, ret, tables,
                   new_code_instance_validate, flagref_list, ci, mi, uniquing, uniquing_table,
                   slots, methods, mi_valid, specializations, mt_defs, valids,
                   callee_backedges, mt_backedges, reinit_done, passes, entry,
                   queued_method_roots, calls>>
    /\ UNCHANGED savevars

JiSrcText ==
    /\ ji.pc = "srctext"
    /\ ji' = [ji EXCEPT !.pc = "jl_read_verify_header",
                        !.w = WriteSrcText(Within(@, "srctext"), ji.udeps, ji.readable,
                                           ji.srctextpos)]
    /\ UNCHANGED <<wire, type_cache, type_tags, appended_roots, f, rt, jl_world_counter,
                   gc_enabled, finalizers_inhibited, serializer_worklist, pc, en, ret, tables,
                   new_code_instance_validate, flagref_list, ci, mi, uniquing, uniquing_table,
                   slots, methods, mi_valid, specializations, mt_defs, valids,
                   callee_backedges, mt_backedges, reinit_done, passes, entry,
                   queued_method_roots, calls>>
    /\ UNCHANGED savevars

\* _jl_restore_incremental opens the file and reads the header
JiReadHeader ==
    /\ ji.pc = "jl_read_verify_header"
    /\ ji' = [ji EXCEPT !.pc = "skip_mod_list",
                        !.r = ios_skip([buf |-> ji.w.buf, pos |-> 0], HeaderLen)]
    /\ UNCHANGED <<wire, type_cache, type_tags, appended_roots, f, rt, jl_world_counter,
                   gc_enabled, finalizers_inhibited, serializer_worklist, pc, en, ret, tables,
                   new_code_instance_validate, flagref_list, ci, mi, uniquing, uniquing_table,
                   slots, methods, mi_valid, specializations, mt_defs, valids,
                   callee_backedges, mt_backedges, reinit_done, passes, entry,
                   queued_method_roots, calls>>
    /\ UNCHANGED savevars

JiSkipModList ==
    /\ ji.pc = "skip_mod_list"
    /\ ji' = [ji EXCEPT !.pc = "skip_deps", !.r = SkipModList(@)]
    /\ UNCHANGED <<wire, type_cache, type_tags, appended_roots, f, rt, jl_world_counter,
                   gc_enabled, finalizers_inhibited, serializer_worklist, pc, en, ret, tables,
                   new_code_instance_validate, flagref_list, ci, mi, uniquing, uniquing_table,
                   slots, methods, mi_valid, specializations, mt_defs, valids,
                   callee_backedges, mt_backedges, reinit_done, passes, entry,
                   queued_method_roots, calls>>
    /\ UNCHANGED savevars

JiSkipDeps ==
    /\ ji.pc = "skip_deps"
    /\ ji' = [ji EXCEPT !.pc = "read_verify_mod_list", !.r = SkipDeps(@)]
    /\ UNCHANGED <<wire, type_cache, type_tags, appended_roots, f, rt, jl_world_counter,
                   gc_enabled, finalizers_inhibited, serializer_worklist, pc, en, ret, tables,
                   new_code_instance_validate, flagref_list, ci, mi, uniquing, uniquing_table,
                   slots, methods, mi_valid, specializations, mt_defs, valids,
                   callee_backedges, mt_backedges, reinit_done, passes, entry,
                   queued_method_roots, calls>>
    /\ UNCHANGED savevars

NextFraming ==
    \/ JiWriteHeader \/ JiWriteWorkList \/ JiWriteDependencyList \/ JiWriteModList
    \/ JiSerialize \/ JiSrcText \/ JiReadHeader \/ JiSkipModList \/ JiSkipDeps

\* jl_save_incremental has opened the file
InitFraming ==
    /\ LoaderState(CacheFile(write_header, <<>>, BasePayload), BaseSession, 1, TRUE, 0, "done")
    /\ NoSave
    /\ wire = NoWire
    /\ \E udeps \in DepLists, prefs \in PrefLists, wl \in NameLists, ma \in NameLists \cup {<<>>},
          readable \in BOOLEAN :
          /\ udeps = NullDeps => prefs = <<>> /\ readable
          /\ ji = [pc |-> "write_header", udeps |-> udeps, prefs |-> prefs, worklist |-> wl,
                   mod_array |-> ma, readable |-> readable, srctextpos |-> 0,
                   w |-> [buf |-> <<>>, pos |-> 0, sec |-> ""],
                   r |-> [buf |-> <<>>, pos |-> 0]]

SpecFraming == InitFraming /\ [][NextFraming]_vars

\* the position of the first byte that sec wrote, or the length of the file
FirstOf(buf, sec) ==
    IF \E i \in 1 .. Len(buf) : buf[i].sec = sec
    THEN (CHOOSE i \in 1 .. Len(buf) :
             buf[i].sec = sec /\ \A h \in 1 .. (i - 1) : buf[h].sec # sec) - 1
    ELSE Len(buf)

\* C38: a reader that has skipped the list of the worklist's modules, read the
\* 8-byte length at the head of the dependency block and skipped that many
\* bytes stands at the first byte write_mod_list wrote; when a dependency list
\* exists this is 8 bytes behind the position write_dependency_list returned,
\* where the source-text pointer lies, and otherwise right behind the length;
\* once the save has patched the pointer, it holds the position of the first
\* byte of the source text
C38_BlockLength ==
    /\ ji.pc = "read_verify_mod_list" =>
          /\ ji.r.pos = FirstOf(ji.r.buf, "mod_list")
          /\ ji.udeps # NullDeps =>
                /\ ji.r.pos = ji.srctextpos + 8
                /\ ji.r.buf[ji.srctextpos + 1].t = "i64"
          /\ ji.udeps = NullDeps =>
                /\ ji.r.pos = FirstOf(ji.r.buf, "deps") + 8
                /\ ji.srctextpos = 0
    /\ (ji.pc \in {"jl_read_verify_header", "skip_mod_list", "skip_deps", "read_verify_mod_list"}
          /\ ji.udeps # NullDeps) =>
          /\ ji.w.buf[ji.srctextpos + 1].t = "i64"
          /\ ji.w.buf[ji.srctextpos + 1].v = FirstOf(ji.w.buf, "srctext")
          /\ ji.w.buf[FirstOf(ji.w.buf, "deps") + 1].v + FirstOf(ji.w.buf, "deps")
                = ji.srctextpos

\* the reader has skipped a block with two dependencies, one of them in a
\* submodule of the worklist, and a preference list, and the source text of a
\* dependency was appended
C38_Witness ==
    /\ ji.pc = "read_verify_mod_list"
    /\ ji.udeps # NullDeps
    /\ Len(ji.udeps.list) = MaxDeps
    /\ \E i \in 1 .. MaxDeps : ji.udeps.list[i].owner = "sub" /\ ji.udeps.list[i].slen # 0
    /\ ji.prefs = <<MaxName, 1>>
    /\ ji.readable
    /\ ji.r.pos = ji.srctextpos + 8
    /\ ji.r.buf[ji.r.pos + 1].sec = "mod_list"
    /\ Len(ji.w.buf) > FirstOf(ji.w.buf, "srctext") + 4


(***************************************************************************)
(* The byte behind the tag of a method instance.                           *)
(***************************************************************************)
\* the method instances a save of the worklist reaches
MIsSaved ==
    {v \in UNION {ReachableFrom(save_in.roots[1].kids[i]) : i \in DOMAIN save_in.roots[1].kids} :
        v.kind = "MethodInstance"}
\* where the body of v starts in the stream
MIAt(v) == CHOOSE i \in DOMAIN stream : stream[i] = Tok("TAG_METHOD_INSTANCE", v.id)
\* the decoder after it has read the body of v into a field of an object
MIDecoded(v) ==
    jl_deserialize_value(stream, At([DecodedStream EXCEPT !.i = MIAt(v)],
                                    Field(<<"Array", 1>>, 1)))
\* the entries of flagref_list the decoder pushed with the position of v
MIFlagrefs(v) ==
    {e \in Range(DecodedStream.flagref_list) :
        e.pos >= 0 /\ DecodedStream.backref_list[e.pos + 1] = Key(v)}
\* what the serializer wrote for v behind the byte c, and what the decoder
\* reads of it: specTypes and def, the uninferred code before them for 1, and
\* for 0 nothing else, v being flagged and entered in flagref_list; for the
\* other bytes sparam_vals, backedges, callbacks and cache
MIFieldsMatch(v, c) ==
    LET at == MIAt(v) + (IF c = 1 THEN 3 ELSE 2)
    IN  /\ MIDecoded(v).err = ""
        /\ c = 1 <=> stream[MIAt(v) + 2] = Tok("TAG_NULL", 0)
        /\ stream[at] = Tok("ser_tag", ser_tag("Any"))
        /\ stream[at + 1] = Tok("ser_tag", ser_tag("nothing"))
        /\ c = 0 => /\ MIDecoded(v).i = at + 2
                    /\ saved.backref_table[Key(v)] % 2 = 1
                    /\ MIFlagrefs(v) # {}
        /\ c # 0 => /\ MIDecoded(v).i = at + 6
                    /\ stream[at + 2] = Tok("ser_tag", ser_tag("emptysvec"))
                    /\ \A k \in 3 .. 5 : stream[at + k] = Tok("TAG_NULL", 0)
                    /\ saved.backref_table[Key(v)] % 2 = 0
                    /\ MIFlagrefs(v) = {}

\* the statement of the format description: 0 exactly for a method instance
\* without a method
C39_Stated ==
    /\ save_pc = "saved" =>
          \A v \in MIsSaved :
             LET c == stream[MIAt(v) + 1].a
             IN  /\ c = 0 <=> v.attr = "toplevel"
                 /\ v.attr = "worklist" => c = 2
                 /\ v.attr = "external" => c = 3
    /\ load_status = "decoded" =>
          \A v \in MIsSaved : MIFieldsMatch(v, stream[MIAt(v) + 1].a)

\* C39: the byte written behind the tag of a method instance is 1 exactly
\* when it has no defining method (its uninferred code is then written before
\* specTypes), 2 exactly when the module of its method is in the worklist, 3
\* exactly when its method is external and the instance is queued, and 0
\* exactly when its method is external and the instance is not queued; the
\* decoder reads specTypes and def for every byte and sparam_vals, backedges,
\* callbacks and the chain of code instances exactly for a byte other than 0,
\* which is what the serializer wrote
C39_InternalByte ==
    /\ save_pc = "saved" =>
          \A v \in MIsSaved :
             LET c == stream[MIAt(v) + 1].a
             IN  /\ c = 1 <=> v.attr = "toplevel"
                 /\ c = 2 <=> v.attr = "worklist"
                 /\ c = 3 <=> v.attr = "external"
                 /\ c = 0 <=> v.attr = "unqueued"
    /\ load_status = "decoded" =>
          \A v \in MIsSaved : MIFieldsMatch(v, stream[MIAt(v) + 1].a)

\* a method instance without a method was written with 1 and its uninferred
\* code behind another value of the worklist, and the stream was read back
C39_Witness ==
    /\ load_status = "decoded"
    /\ \E v \in MIsSaved :
          /\ v.attr = "toplevel"
          /\ stream[MIAt(v) + 1].a = 1
          /\ stream[MIAt(v) + 2] = Tok("TAG_NULL", 0)
          /\ MIAt(v) > 4

\* ---------------------------------------------------------------------------
\* The back-reference word on the wire: jl_serialize_generic writes the value
\* stored in backref_table, jl_deserialize_value reads it back. The stored
\* value is wider than an integer of the checker, so it is kept as 16-bit
\* limbs, most significant first.
\* ---------------------------------------------------------------------------

\* the largest value of the int backref_table_numel that can still be incremented
MaxNumel == 2147483646
\* 1 << 16: the limit jl_serialize_generic tests the stored value against, and
\* the radix of a limb
Word16 == 65536

\* a non-negative int as four limbs
Limbs(n) == <<0, 0, n \div Word16, n % Word16>>
\* pos <<= 1 on the intptr_t that holds a non-negative int
ShiftLeft1(n) == <<0, 0, n \div (Word16 \div 2), (n % (Word16 \div 2)) * 2>>
\* *bp |= 1
OrOne(w) == [w EXCEPT ![4] = (@ \div 2) * 2 + 1]
\* offs & 1
LowBit(w) == w[4] % 2
\* offs >>= 1 on the uintptr_t
ShiftRight1(w) ==
    [i \in 1 .. 4 |-> w[i] \div 2 + (IF i > 1 THEN (w[i - 1] % 2) * (Word16 \div 2) ELSE 0)]

\* a variant that tests the position the stored value holds
PosShortIndex(w) == ShiftRight1(w)[1] = 0 /\ ShiftRight1(w)[2] = 0 /\ ShiftRight1(w)[3] = 0
\* pos < 65536
PosShort(w) == w[1] = 0 /\ w[2] = 0 /\ w[3] = 0 /\ w[4] < Word16

\* write_uint16(s, pos): the low 16 bits, low byte first
WriteUint16(w) == Uint16Bytes(w[4])
\* write_int32(s, pos): the low 32 bits, low byte first
WriteInt32(w) == Uint16Bytes(w[4]) \o Uint16Bytes(w[3])
\* uintptr_t offs = read_uint16(s)
ReadUint16(bytes) == <<0, 0, 0, read_uint16(bytes, 1)>>
\* uintptr_t offs = read_int32(s): the int32_t is sign-extended to the width
\* of the pointer
ReadInt32(bytes) ==
    LET lo == read_uint16(bytes, 1)
        hi == read_uint16(bytes, 3)
        ext == IF hi >= Word16 \div 2 THEN Word16 - 1 ELSE 0
    IN  <<ext, ext, hi, lo>>

\* the branch of jl_serialize_generic that finds v in backref_table
WriteBackref(w) ==
    IF PosShort(w)
    THEN [tag |-> "TAG_SHORT_BACKREF", bytes |-> WriteUint16(w)]
    ELSE [tag |-> "TAG_BACKREF", bytes |-> WriteInt32(w)]

\* the TAG_BACKREF / TAG_SHORT_BACKREF arm of jl_deserialize_value, up to
\* the index into backref_list
ReadBackref(tag, bytes) ==
    LET offs == IF tag = "TAG_BACKREF" THEN ReadInt32(bytes) ELSE ReadUint16(bytes)
    IN  [isflagref |-> LowBit(offs), offs |-> ShiftRight1(offs)]

\* values of backref_table_numel around the limits of the two forms
WirePositions ==
    (0 .. 3) \cup ((Word16 \div 4 - 2) .. (Word16 \div 4 + 1))
             \cup ((Word16 \div 2 - 3) .. (Word16 \div 2 + 2))
             \cup ((Word16 - 3) .. (Word16 + 2))
             \cup ((Word16 * 256 - 2) .. (Word16 * 256 + 1))
             \cup ((Word16 * (Word16 \div 4) - 3) .. (Word16 * (Word16 \div 4) + 2))
             \cup ((MaxNumel - 2) .. MaxNumel)

\* pos = backref_table_numel++; pos <<= 1; ptrhash_put(&backref_table, v, pos)
WireAssign ==
    /\ wire.pc = "assign"
    /\ wire.numel <= MaxNumel
    /\ wire' = [wire EXCEPT !.pc = "assigned", !.numel = @ + 1, !.bp = ShiftLeft1(wire.numel)]
    /\ UNCHANGED <<ji, type_cache, type_tags, appended_roots, f, rt, jl_world_counter,
                   gc_enabled, finalizers_inhibited, serializer_worklist, pc, en, ret, tables,
                   new_code_instance_validate, flagref_list, ci, mi, uniquing, uniquing_table,
                   slots, methods, mi_valid, specializations, mt_defs, valids,
                   callee_backedges, mt_backedges, reinit_done, passes, entry,
                   queued_method_roots, calls>>
    /\ UNCHANGED savevars

\* the serializer of an external type, method or method instance marks the
\* stored value of the object it has just given a position
WireFlag ==
    /\ wire.pc = "assigned"
    /\ wire.external
    /\ LowBit(wire.bp) = 0
    /\ wire' = [wire EXCEPT !.bp = OrOne(@)]
    /\ UNCHANGED <<ji, type_cache, type_tags, appended_roots, f, rt, jl_world_counter,
                   gc_enabled, finalizers_inhibited, serializer_worklist, pc, en, ret, tables,
                   new_code_instance_validate, flagref_list, ci, mi, uniquing, uniquing_table,
                   slots, methods, mi_valid, specializations, mt_defs, valids,
                   callee_backedges, mt_backedges, reinit_done, passes, entry,
                   queued_method_roots, calls>>
    /\ UNCHANGED savevars

\* a later reference to the object: jl_serialize_generic finds it in backref_table
WireBackref ==
    /\ wire.pc = "assigned"
    /\ wire.external => LowBit(wire.bp) = 1
    /\ wire' = [wire EXCEPT !.pc = "written", !.tag = WriteBackref(wire.bp).tag,
                            !.bytes = WriteBackref(wire.bp).bytes]
    /\ UNCHANGED <<ji, type_cache, type_tags, appended_roots, f, rt, jl_world_counter,
                   gc_enabled, finalizers_inhibited, serializer_worklist, pc, en, ret, tables,
                   new_code_instance_validate, flagref_list, ci, mi, uniquing, uniquing_table,
                   slots, methods, mi_valid, specializations, mt_defs, valids,
                   callee_backedges, mt_backedges, reinit_done, passes, entry,
                   queued_method_roots, calls>>
    /\ UNCHANGED savevars

\* jl_deserialize_value reads the tag and the word
WireRead ==
    /\ wire.pc = "written"
    /\ wire' = [wire EXCEPT !.pc = "read",
                            !.isflagref = ReadBackref(wire.tag, wire.bytes).isflagref,
                            !.offs = ReadBackref(wire.tag, wire.bytes).offs]
    /\ UNCHANGED <<ji, type_cache, type_tags, appended_roots, f, rt, jl_world_counter,
                   gc_enabled, finalizers_inhibited, serializer_worklist, pc, en, ret, tables,
                   new_code_instance_validate, flagref_list, ci, mi, uniquing, uniquing_table,
                   slots, methods, mi_valid, specializations, mt_defs, valids,
                   callee_backedges, mt_backedges, reinit_done, passes, entry,
                   queued_method_roots, calls>>
    /\ UNCHANGED savevars

NextWire == WireAssign \/ WireFlag \/ WireBackref \/ WireRead

\* the serializer is about to give an object the position backref_table_numel;
\* position 0 is the top module of the worklist, which is never external
InitWire ==
    /\ LoaderState(CacheFile(write_header, <<>>, BasePayload), BaseSession, 1, TRUE, 0, "done")
    /\ NoSave
    /\ ji = NoJi
    /\ \E p \in WirePositions, external \in BOOLEAN :
          /\ p = 0 => ~external
          /\ wire = [pc |-> "assign", numel |-> p, p |-> p, external |-> external,
                     bp |-> Limbs(0), tag |-> "", bytes |-> <<>>,
                     isflagref |-> 0, offs |-> Limbs(0)]

SpecWire == InitWire /\ [][NextWire]_vars

\* the reference has been written
WireWritten == wire.pc \in {"written", "read"}
\* the flag the serializer stored with the position
WireFlagOf == IF wire.external THEN 1 ELSE 0
\* what was read is what was written
WireRoundTrip == wire.offs = Limbs(wire.p) /\ wire.isflagref = WireFlagOf

C40_Beyond ==
    wire.pc = "read" /\ wire.p >= Word16 * (Word16 \div 4) => ~(wire.offs = Limbs(wire.p))

====
